---- MODULE Spec2Model ----
(***************************************************************************)
(* energy-guessr: the dataset hook useEnergyDataset (the Dataset Source    *)
(* Resolver, the Shard Index Resolver and the Shard Cache) and the pure    *)
(* helpers of domain/energy it calls.                                      *)
(*                                                                         *)
(* A JSON object is a record; "the property f is present" is               *)
(* f \in DOMAIN obj.  A JSON string that the code inspects character by    *)
(* character (names, numeric strings) is a sequence of one-character       *)
(* strings.  Network requests are explicit messages in `net`; a response   *)
(* is chosen when the request resolves.                                    *)
(***************************************************************************)
EXTENDS Integers, Sequences, FiniteSets, TLC

\* ------------------------------------------------------------------ bounds
MaxSeq == 2      \* runs of the effect (load sequences) in one behaviour
MaxCalls == 1    \* setYear invocations in one behaviour
MaxYearCalls == 2   \* setYear invocations on one loaded index source

Seqs == 1..MaxSeq

\* --------------------------------------------------------------- constants
\* a path is the sequence of its "/"-separated segments
primaryPath == <<"data", "energy-profiles-apec.json">>
primaryIndexPath == <<"data", "energy-profiles-apec.index.json">>
worldPath == <<"data", "energy-profiles-un-ei.json">>
worldIndexPath == <<"data", "energy-profiles-un-ei.index.json">>
samplePath == <<"data", "energy-profiles.sample.json">>

Preferences == {"apec", "world", "auto"}

Null == [null |-> TRUE]      \* the dataset field before any load
NullYear == 0                \* selectedYear: null
Undefined == "undefined"     \* error: undefined
NoEconomy == "-"             \* preferredEconomy omitted

\* ------------------------------------------------------------ sequences
RECURSIVE InsertSorted(_, _)
InsertSorted(x, s) ==
  IF s = <<>> THEN <<x>>
  ELSE IF x <= Head(s) THEN <<x>> \o s
       ELSE <<Head(s)>> \o InsertSorted(x, Tail(s))

\* Array.prototype.sort((a, b) => a - b)
RECURSIVE SortAsc(_)
SortAsc(s) == IF s = <<>> THEN <<>> ELSE InsertSorted(Head(s), SortAsc(Tail(s)))

Range(s) == {s[i] : i \in DOMAIN s}

\* Array.prototype.includes
Includes(s, x) == \E i \in DOMAIN s : s[i] = x

\* Array.prototype.find over a predicate given as the set of matching
\* elements: the index of the first match, 0 when there is none
FirstIndex(s, matching) ==
  IF \E i \in DOMAIN s : s[i] \in matching
  THEN CHOOSE i \in DOMAIN s :
         /\ s[i] \in matching
         /\ \A j \in 1..(i - 1) : s[j] \notin matching
  ELSE 0

Abs(x) == IF x < 0 THEN -x ELSE x

Max2(a, b) == IF a >= b THEN a ELSE b

\* ---------------------------------------------------------------- strings
Blank == {" ", "\t"}                   \* what String.prototype.trim removes
Punct == {"-", " ", "'", "(", ")"}     \* the class [- '()]
Digits == {"0", "1", "2", "3", "4", "5", "6", "7", "8", "9"}

DigitVal(c) ==
  CASE c = "0" -> 0 [] c = "1" -> 1 [] c = "2" -> 2 [] c = "3" -> 3
    [] c = "4" -> 4 [] c = "5" -> 5 [] c = "6" -> 6 [] c = "7" -> 7
    [] c = "8" -> 8 [] c = "9" -> 9

RECURSIVE TrimLeft(_)
TrimLeft(s) ==
  IF s = <<>> THEN s
  ELSE IF Head(s) \in Blank THEN TrimLeft(Tail(s)) ELSE s

RECURSIVE TrimRight(_)
TrimRight(s) ==
  IF s = <<>> THEN s
  ELSE IF s[Len(s)] \in Blank THEN TrimRight(SubSeq(s, 1, Len(s) - 1)) ELSE s

\* String.prototype.trim
Trim(s) == TrimRight(TrimLeft(s))

RECURSIVE Remove(_, _)
Remove(s, class) ==
  IF s = <<>> THEN <<>>
  ELSE IF Head(s) \in class THEN Remove(Tail(s), class)
       ELSE <<Head(s)>> \o Remove(Tail(s), class)

\* normalize("NFD") followed by the removal of the combining marks
StripDiacritic(c) ==
  CASE c = "é" -> "e" [] c = "ô" -> "o" [] c = "É" -> "E" [] OTHER -> c

\* toLowerCase
LowerChar(c) ==
  CASE c = "A" -> "a" [] c = "C" -> "c" [] c = "E" -> "e" [] c = "J" -> "j"
    [] c = "O" -> "o" [] c = "U" -> "u" [] c = "K" -> "k" [] c = "N" -> "n"
    [] c = "P" -> "p" [] c = "R" -> "r" [] c = "S" -> "s" [] OTHER -> c

sanitizeEconomyName(value) ==
  LET trimmed == Trim(value)
      plain == [i \in DOMAIN trimmed |-> StripDiacritic(trimmed[i])]
      kept == Remove(plain, Punct)
  IN [i \in DOMAIN kept |-> LowerChar(kept[i])]

\* ------------------------------------------------------ numeric normaliser
\* A parsed JSON value: [t |-> "num", v |-> n] a finite number,
\* [t |-> "nan"] a non-finite number, [t |-> "str", s |-> chars] a string,
\* [t |-> "null"], [t |-> "bool", b |-> ...], [t |-> "arr", items |-> texts] an
\* array (of the texts its elements convert to), [t |-> "obj"] anything else.

Num(n) == [t |-> "num", v |-> n]
Str(chars) == [t |-> "str", s |-> chars]

RECURSIVE DigitsValue(_)
DigitsValue(s) ==
  IF s = <<>> THEN 0 ELSE 10 * DigitsValue(SubSeq(s, 1, Len(s) - 1)) + DigitVal(s[Len(s)])

\* Number(string) on integer literals: [ok, v]; "" is 0, a non-numeric text NaN
NumberOfString(s) ==
  LET body == IF s # <<>> /\ Head(s) \in {"-", "+"} THEN Tail(s) ELSE s
      neg == s # <<>> /\ Head(s) = "-"
  IN IF s = <<>> THEN [ok |-> TRUE, v |-> 0]
     ELSE IF body # <<>> /\ \A i \in DOMAIN body : body[i] \in Digits
          THEN [ok |-> TRUE, v |-> IF neg THEN -DigitsValue(body) ELSE DigitsValue(body)]
          ELSE [ok |-> FALSE, v |-> 0]

RECURSIVE JoinComma(_)
\* Array.prototype.join(): what Number(array) converts
JoinComma(items) ==
  IF items = <<>> THEN <<>>
  ELSE IF Len(items) = 1 THEN items[1]
  ELSE items[1] \o <<",">> \o JoinComma(Tail(items))

\* a conversion that parses a string with its commas
toNumberKeepsCommas(value) ==
  IF value.t = "num" THEN value.v
  ELSE IF value.t = "str"
  THEN LET parsed == NumberOfString(Trim(value.s))
       IN IF parsed.ok THEN parsed.v ELSE 0
  ELSE 0

toNumber(value) ==
  IF value.t = "num" THEN value.v
  ELSE IF value.t = "str"
  THEN LET cleaned == Trim(Remove(value.s, {","}))
           parsed == NumberOfString(Trim(cleaned))
       IN IF parsed.ok THEN parsed.v ELSE 0
  ELSE IF value.t = "null" THEN 0
  ELSE IF value.t = "bool" THEN (IF value.b THEN 1 ELSE 0)
  ELSE IF value.t = "arr"
  THEN LET parsed == NumberOfString(Trim(JoinComma(value.items)))
       IN IF parsed.ok THEN parsed.v ELSE 0
  ELSE 0

\* ------------------------------------------------------- domain/energy
RECURSIVE SumOver(_, _)
\* the sum of f[x] over the finite set S
SumOver(S, f) ==
  IF S = {} THEN 0
  ELSE LET x == CHOOSE y \in S : TRUE IN f[x] + SumOver(S \ {x}, f)

\* profile.sectors[key] ?? []
SectorList(profile, key) ==
  IF key \in DOMAIN profile.sectors THEN profile.sectors[key] ELSE <<>>

\* a lookup by the fuel name as written
valueForFuelAsWritten(sector, sectorKey, fuel) ==
  LET items == IF sectorKey \in DOMAIN sector THEN sector[sectorKey] ELSE <<>>
      hit == FirstIndex(items, {it \in Range(items) : it.fuel = fuel})
  IN IF hit = 0 THEN 0 ELSE items[hit].value.v

valueForFuel(sector, sectorKey, fuel) ==
  LET items == IF sectorKey \in DOMAIN sector THEN sector[sectorKey] ELSE <<>>
      hit == FirstIndex(items, {it \in Range(items) :
               sanitizeEconomyName(it.fuel) = sanitizeEconomyName(fuel)})
  IN IF hit = 0 THEN 0 ELSE items[hit].value.v

\* a distance over the fuels of the target alone
profileDistanceTargetFuels(target, guess) ==
  LET sectorKeys == DOMAIN target.sectors
      fuels(k) == {it.fuel : it \in Range(SectorList(target, k))}
      delta(k) == [f \in fuels(k) |->
                     Abs(valueForFuel(target.sectors, k, f)
                           - valueForFuel(guess.sectors, k, f))]
  IN SumOver(sectorKeys, [k \in sectorKeys |-> SumOver(fuels(k), delta(k))])

profileDistance(target, guess) ==
  LET sectorKeys == DOMAIN target.sectors \cup DOMAIN guess.sectors
      fuels(k) == {it.fuel : it \in Range(SectorList(target, k))}
                    \cup {it.fuel : it \in Range(SectorList(guess, k))}
      delta(k) == [f \in fuels(k) |->
                     Abs(valueForFuel(target.sectors, k, f)
                           - valueForFuel(guess.sectors, k, f))]
  IN SumOver(sectorKeys, [k \in sectorKeys |-> SumOver(fuels(k), delta(k))])

RECURSIVE MaxOver(_)
MaxOver(S) ==
  IF S = {} THEN 0
  ELSE LET x == CHOOSE y \in S : TRUE IN Max2(x, MaxOver(S \ {x}))

\* a maximum over the pairs of neighbours only
getMaxDistanceNeighbours(dataset) ==
  LET n == Len(dataset.profiles)
      max == MaxOver({profileDistance(dataset.profiles[i], dataset.profiles[i + 1]) :
                        i \in 1..(n - 1)})
  IN IF max = 0 THEN 1 ELSE max

getMaxDistance(dataset) ==
  LET n == Len(dataset.profiles)
      max == MaxOver({profileDistance(dataset.profiles[p[1]], dataset.profiles[p[2]]) :
                        p \in {q \in (1..n) \X (1..n) : q[1] < q[2]}})
  IN IF max = 0 THEN 1 ELSE max

\* ------------------------------------------------------ profile normaliser
\* a parsed value is usable as a dataset when it is an object with a
\* profiles array whose profiles carry a sectors object; on anything else
\* normalizeDataset raises a TypeError
WellFormed(dataset) ==
  /\ "profiles" \in DOMAIN dataset
  /\ \A i \in DOMAIN dataset.profiles : "sectors" \in DOMAIN dataset.profiles[i]

\* a normaliser that keeps the NaN of a text that is no number
normalizeProfileKeepsNaN(profile) ==
  [profile EXCEPT !.sectors =
     [k \in DOMAIN profile.sectors |->
        [i \in DOMAIN profile.sectors[k] |->
           LET value == profile.sectors[k][i].value
           IN [fuel |-> profile.sectors[k][i].fuel,
               value |-> IF value.t = "str"
                            /\ ~NumberOfString(Trim(Remove(value.s, {","}))).ok
                         THEN [t |-> "nan", v |-> 0]
                         ELSE Num(toNumber(value))]]]]

normalizeProfile(profile) ==
  [profile EXCEPT !.sectors =
     [k \in DOMAIN profile.sectors |->
        [i \in DOMAIN profile.sectors[k] |->
           [fuel |-> profile.sectors[k][i].fuel,
            value |-> Num(toNumber(profile.sectors[k][i].value))]]]]

normalizeDataset(dataset) ==
  [dataset EXCEPT !.profiles =
     [i \in DOMAIN dataset.profiles |-> normalizeProfile(dataset.profiles[i])]]


\* ------------------------------------------------- documents on the server
\* The JSON documents a request may be answered with.  Years are 2020..2022;
\* every shard holds two economies with one sector.
Coal == <<"c", "o", "a", "l">>
Gas == <<"g", "a", "s">>

RawProfile(economy, name, coal, gas) ==
  [economy |-> economy, name |-> name,
   sectors |-> [tpes |-> <<[fuel |-> Coal, value |-> coal],
                           [fuel |-> Gas, value |-> gas]>>]]

\* the single-year dataset of a family for a year (and a group of economies);
\* numeric fields arrive as numbers or as comma-formatted strings, and the
\* two profiles are further apart every year
RawDataset(family, year, group) ==
  LET base == (year - 2019) * 100 + (IF family = "world" THEN 1000 ELSE 0)
                + (IF group = "g2" THEN 10 ELSE 0)
  IN [year |-> year, scenario |-> family, sectors |-> <<"tpes">>,
      profiles |-> <<RawProfile("AUS", <<"A", "u", "s">>, Num(base),
                                Str(<<"1", ",", "2", "0", "0">>)),
                     RawProfile("JPN", <<"J", "p", "n">>, Num(base + year - 2013),
                                Str(<<"n", "/", "a">>))>>]

\* SAMPLE_DATASET of domain/energy
Name(chars) == chars
Fuels(names, values) == [i \in DOMAIN names |-> [fuel |-> names[i], value |-> Num(values[i])]]
TpesFuels == <<Coal, Gas, <<"o", "i", "l">>,
               <<"r", "e", "n", "e", "w", "a", "b", "l", "e", "s">>>>
TfcFuels == <<<<"i", "n", "d", "u", "s", "t", "r", "y">>,
              <<"t", "r", "a", "n", "s", "p", "o", "r", "t">>,
              <<"b", "u", "i", "l", "d", "i", "n", "g", "s">>,
              <<"o", "t", "h", "e", "r">>>>
TransFuels == <<<<"p", "o", "w", "e", "r">>, <<"h", "e", "a", "t">>,
                <<"b", "u", "n", "k", "e", "r", "s">>>>

SampleProfile(economy, name, tpes, tfc, trans) ==
  [economy |-> economy, name |-> name,
   sectors |-> [tpes |-> Fuels(TpesFuels, tpes), tfc |-> Fuels(TfcFuels, tfc),
                trans |-> Fuels(TransFuels, trans)]]

SAMPLE_DATASET ==
  [year |-> 2020, scenario |-> "reference", sectors |-> <<"tpes", "tfc", "trans">>,
   profiles |->
     <<SampleProfile("01_AUS", <<"A", "u", "s", "t", "r", "a", "l", "i", "a">>,
                     <<3200, 1900, 1600, 850>>, <<1800, 1400, 700, 450>>,
                     <<2100, 200, 120>>),
       SampleProfile("02_CAN", <<"C", "a", "n", "a", "d", "a">>,
                     <<800, 2500, 2200, 1600>>, <<1700, 1300, 900, 400>>,
                     <<1700, 180, 90>>),
       SampleProfile("03_JPN", <<"J", "a", "p", "a", "n">>,
                     <<1800, 2100, 2600, 700>>, <<1900, 1100, 950, 380>>,
                     <<2200, 160, 150>>)>>]

getSampleDataset == SAMPLE_DATASET

\* an object that is neither a dataset nor a container nor an index
Junk == [note |-> "not a dataset"]

Group(family, year, id, economies) ==
  [id |-> id, file |-> <<family, "shard", id>> \o <<year>>, economies |-> economies]

\* year-grouped index: the years are unsorted, the defaultYear is listed,
\* and 2022 is listed but has no groups
IdxYG(family) ==
  [years |-> <<2021, 2020, 2022>>, defaultYear |-> 2021,
   year_groups |-> [y \in {2020, 2021} |->
                      <<Group(family, y, "g1", {"AUS"}),
                        Group(family, y, "g2", {"JPN"})>>]]

\* year-grouped index with no group for its default year
IdxYGNoInit(family) ==
  [years |-> <<2020>>,
   year_groups |-> [y \in {2021} |-> <<Group(family, y, "g1", {"AUS"})>>]]

\* legacy per-year index: the years are unsorted, the defaultYear is not
\* listed, and neither is 2022
IdxLegacy(family) ==
  [years |-> <<2021, 2020>>, defaultYear |-> 2019,
   files |-> [y \in {2020, 2021} |-> <<family, "year", "all", y>>]]

\* year-grouped index whose two groups of 2020 carry the same id
IdxYGSameId(family) ==
  [years |-> <<2020, 2021>>, defaultYear |-> 2021,
   year_groups |-> [y \in {2020, 2021} |->
                      <<Group(family, y, "g1", {"AUS"}),
                        [id |-> IF y = 2020 THEN "g1" ELSE "g2",
                         file |-> <<family, "shard", "g2", y>>,
                         economies |-> {"JPN"}]>>]]

\* index with the unsupported `groups` form only
IdxGroupsOnly(family) ==
  [years |-> <<2020>>, groups |-> <<Group(family, 2020, "g1", {"AUS"})>>]

IdxNoYears(family) == [files |-> [y \in {2020} |-> <<family, "year", "all", y>>]]
IdxEmptyYears(family) ==
  [years |-> <<>>, files |-> [y \in {2020} |-> <<family, "year", "all", y>>]]
IdxNoMap == [years |-> <<2020>>, defaultYear |-> 2020]

IndexBodies(family) ==
  {IdxYG(family), IdxYGNoInit(family), IdxLegacy(family), IdxGroupsOnly(family),
   IdxNoYears(family), IdxEmptyYears(family), IdxNoMap,
   RawDataset(family, 2020, "all"), Junk}

\* monolithic multi-year container: the years are unsorted, 2022 is listed
\* with an entry that is not a dataset
Multi(family) ==
  [years |-> <<2021, 2020, 2022>>, defaultYear |-> 2021,
   datasets |-> [y \in {2020, 2021, 2022} |->
                   IF y = 2022 THEN Junk ELSE RawDataset(family, y, "all")]]

\* the entry of the default year is not a dataset
MultiBadDefault(family) ==
  [years |-> <<2020, 2021>>, defaultYear |-> 2021,
   datasets |-> [y \in {2020, 2021} |->
                   IF y = 2020 THEN RawDataset(family, y, "all") ELSE Junk]]

MultiEmpty == [years |-> <<2020>>, datasets |-> [y \in {} |-> Junk]]

\* `years` lists 2022, which has no entry in `datasets`; no defaultYear
MultiGap(family) ==
  [years |-> <<2020, 2022>>,
   datasets |-> [y \in {2020, 2021} |-> RawDataset(family, y, "all")]]

\* the defaultYear has an entry in `datasets` and is not listed in `years`
MultiUnlisted(family) ==
  [years |-> <<2020>>, defaultYear |-> 2021,
   datasets |-> [y \in {2020, 2021} |-> RawDataset(family, y, "all")]]

FullBodies(family) ==
  {RawDataset(family, 2020, "all"), Multi(family), MultiBadDefault(family),
   MultiEmpty, MultiGap(family), MultiUnlisted(family), IdxLegacy(family), Junk}

\* the body of a shard file named by an index: <<family, kind, group, year>>
ShardBodies(file) == {RawDataset(file[1], file[4], file[3]), Junk}

\* A response to a GET: the fetch rejects, the status is not OK, the body is
\* not JSON, or the body parses to a document.
Failures == {[kind |-> "neterr"], [kind |-> "notok"], [kind |-> "badjson"]}
Json(body) == [kind |-> "json", body |-> body]

\* ------------------------------------------------------------------- state
VARIABLES
  preferred,   \* the hook's argument in the latest render
  mounted,     \* the owning component is mounted
  cur,         \* the latest run of the effect (0: the effect has not run)
  state,       \* the React state of the hook
  avail,       \* avail[s]: the availability object of run s
  alias,       \* the run whose availability object state.available is (0: none)
  cancelled,   \* cancelled[s]: the flag of run s
  pc,          \* pc[s]: where loadDataset of run s is suspended
  prefs,       \* prefs[s]: the value of `preferred` run s closed over
  att,         \* att[s]: the attempt loadDataset of run s is at (1..5)
  loaded,      \* loaded[s]
  env,         \* env[s]: what the setYear closure of run s captured
  cache,       \* cache[s]: cache / normalizedCache of run s
  net,         \* the requests in flight
  ncalls,      \* setYear invocations so far
  tried,       \* tried[s]: the outcome of every candidate run s has finished
  last,        \* the last step: which operation, of which run, what it did
  \* the view EnergyGame and the guesses it keeps
  dayString,       \* the day of the mount (a day number)
  targetProfile,   \* the profile to guess (NoProfile: null)
  lastEconomyRef,  \* lastEconomyRef.current (NoEconomy: null)
  currentGuess,    \* the text of the input
  guesses,         \* the guess list of useEnergyGuesses
  storage,         \* localStorage["energy-guesses"]: day -> serialized list
  reloads,         \* page loads after the first
  \* a call of a pure helper on its own
  calc             \* the helper, its arguments and, once it returned, the result

gameVars == <<dayString, targetProfile, lastEconomyRef, currentGuess, guesses,
              storage, reloads>>

\* the hook and the view
programVars ==
  <<preferred, mounted, cur, state, avail, alias, cancelled, pc, prefs, att, loaded,
    env, cache, net, ncalls, tried, last, gameVars>>

vars == <<programVars, calc>>

NoCalc == [fn |-> "none"]        \* no helper is called on its own

NoProfile == [none |-> TRUE]     \* targetProfile: null

\* the view before its first render has committed
GameInit ==
  /\ dayString = 1
  /\ targetProfile = NoProfile
  /\ lastEconomyRef = NoEconomy
  /\ currentGuess = <<>>
  /\ guesses = <<>>
  /\ storage = <<>>
  /\ reloads = 0

noopSetYear == [kind |-> "noop", seq |-> 0]

InitialState ==
  [dataset |-> Null, years |-> <<>>, selectedYear |-> NullYear,
   setYear |-> noopSetYear, maxDistance |-> 1, loading |-> TRUE,
   source |-> "sample", available |-> [apec |-> FALSE, world |-> FALSE],
   error |-> Undefined]

NoEnv == [kind |-> "none"]
NoFlags == [apec |-> FALSE, world |-> FALSE]
\* a step of operation `op` of run `seq`; wrote: a setState of it took effect;
\* year, econ: the arguments of the setYear of a source with several years
\* that asked for a shard or wrote; threw: the operation raised to its caller
Step(op, seq) ==
  [op |-> op, seq |-> seq, wrote |-> FALSE, year |-> NullYear,
   econ |-> NoEconomy, threw |-> FALSE]
Wrote(op, seq, year) ==
  [op |-> op, seq |-> seq, wrote |-> mounted, year |-> year,
   econ |-> NoEconomy, threw |-> FALSE]

HookInit ==
  /\ mounted = TRUE
  /\ cur = 0
  /\ state = InitialState
  /\ avail = [s \in Seqs |-> NoFlags]
  /\ alias = 0
  /\ cancelled = [s \in Seqs |-> FALSE]
  /\ pc = [s \in Seqs |-> "idle"]
  /\ prefs = [s \in Seqs |-> "auto"]
  /\ att = [s \in Seqs |-> 0]
  /\ loaded = [s \in Seqs |-> FALSE]
  /\ env = [s \in Seqs |-> NoEnv]
  /\ cache = [s \in Seqs |-> <<>>]
  /\ net = {}
  /\ ncalls = 0
  /\ tried = [s \in Seqs |-> <<>>]
  /\ last = Step("init", 0)

Init ==
  /\ preferred \in Preferences
  /\ HookInit
  /\ GameInit
  /\ calc = NoCalc

\* `available: availability` stores a reference: while state.available is
\* the object of run s, what run s writes into the object shows in the state
InPlace(s, flags) == IF alias = s THEN [state EXCEPT !.available = flags] ELSE state

\* ---------------------------------------------------------- attempt order
Attempt(path, source, mode) == [path |-> path, source |-> source, mode |-> mode]

\* a resolver that asks for the monolithic file of a family before its index
attemptsMonolithicFirst(pref) ==
  (IF pref = "world"
   THEN <<Attempt(worldPath, "world", "full"),
          Attempt(worldIndexPath, "world", "index"),
          Attempt(primaryPath, "user-file", "full"),
          Attempt(primaryIndexPath, "user-file", "index")>>
   ELSE <<Attempt(primaryPath, "user-file", "full"),
          Attempt(primaryIndexPath, "user-file", "index"),
          Attempt(worldPath, "world", "full"),
          Attempt(worldIndexPath, "world", "index")>>)
  \o <<Attempt(samplePath, "sample", "full")>>

\* a resolver that goes from the preferred family straight to the sample
attemptsWithoutOther(pref) ==
  (IF pref = "world"
   THEN <<Attempt(worldIndexPath, "world", "index"),
          Attempt(worldPath, "world", "full")>>
   ELSE <<Attempt(primaryIndexPath, "user-file", "index"),
          Attempt(primaryPath, "user-file", "full")>>)
  \o <<Attempt(samplePath, "sample", "full")>>

attempts(pref) ==
  (IF pref = "world"
   THEN <<Attempt(worldIndexPath, "world", "index"),
          Attempt(worldPath, "world", "full"),
          Attempt(primaryIndexPath, "user-file", "index"),
          Attempt(primaryPath, "user-file", "full")>>
   ELSE <<Attempt(primaryIndexPath, "user-file", "index"),
          Attempt(primaryPath, "user-file", "full"),
          Attempt(worldIndexPath, "world", "index"),
          Attempt(worldPath, "world", "full")>>)
  \o <<Attempt(samplePath, "sample", "full")>>

probePaths ==
  <<[path |-> primaryPath, source |-> "user-file"],
    [path |-> primaryIndexPath, source |-> "user-file"],
    [path |-> worldPath, source |-> "world"],
    [path |-> worldIndexPath, source |-> "world"]>>

\* the family whose documents a candidate path serves
FamilyOf(source) ==
  IF source = "world" THEN "world" ELSE IF source = "user-file" THEN "apec" ELSE "sample"

\* ------------------------------------------------------------- the fetchers
Has(obj, field) == field \in DOMAIN obj

\* fetchIndex: [ok, idx]
fetchIndex(resp) ==
  IF resp.kind # "json" THEN [ok |-> FALSE]
  ELSE LET idx == resp.body
       IN IF \/ ~Has(idx, "years")
             \/ idx.years = <<>>
             \/ (~Has(idx, "files") /\ ~Has(idx, "groups") /\ ~Has(idx, "year_groups"))
          THEN [ok |-> FALSE]
          ELSE [ok |-> TRUE, idx |-> idx]

\* fetchDataset: [ok, raw]; a container is returned as it is, anything else
\* goes through normalizeDataset, which raises on a value without profiles
fetchDataset(resp) ==
  IF resp.kind # "json" THEN [ok |-> FALSE]
  ELSE LET raw == resp.body
       IN IF Has(raw, "datasets") THEN [ok |-> TRUE, raw |-> raw]
          ELSE IF WellFormed(raw) THEN [ok |-> TRUE, raw |-> normalizeDataset(raw)]
          ELSE [ok |-> FALSE]

\* `(await fetchDataset(path)) as EnergyDataset` followed by
\* normalizeDataset(data), as loadGroupYear and loadYear do: [ok, dataset]
fetchShard(resp) ==
  LET got == fetchDataset(resp)
  IN IF got.ok /\ WellFormed(got.raw)
     THEN [ok |-> TRUE, dataset |-> normalizeDataset(got.raw)]
     ELSE [ok |-> FALSE]

\* ------------------------------------------------------ multi-year container
RECURSIVE SetToSortedSeq(_)
SetToSortedSeq(S) ==
  IF S = {} THEN <<>>
  ELSE LET m == CHOOSE x \in S : \A y \in S : x <= y
       IN <<m>> \o SetToSortedSeq(S \ {m})

\* years of applyDataset; Object.keys lists integer keys in ascending order
MultiYears(multi) ==
  SortAsc(IF Has(multi, "years") THEN multi.years
          ELSE SetToSortedSeq(DOMAIN multi.datasets))

\* years[0], undefined (NullYear) on an empty array
FirstYear(years) == IF years = <<>> THEN NullYear ELSE years[1]

\* defaultYear of applyDataset
MultiDefaultYear(multi) ==
  IF /\ Has(multi, "defaultYear")
     /\ multi.defaultYear # 0
     /\ multi.defaultYear \in DOMAIN multi.datasets
  THEN multi.defaultYear
  ELSE FirstYear(MultiYears(multi))

\* pickYear: [ok, key, dataset]; c is normalizedCache.  ok = FALSE: raised
pickYear(multi, defaultYear, c, year) ==
  LET ds == multi.datasets
      entries == SetToSortedSeq(DOMAIN ds)
      chosen == IF year \in DOMAIN ds THEN ds[year]
                ELSE IF defaultYear \in DOMAIN ds THEN ds[defaultYear]
                ELSE ds[entries[1]]
      yr == IF Has(chosen, "year") /\ chosen.year # 0 THEN chosen.year ELSE year
      key == <<yr, "multi">>
  IN IF key \in DOMAIN c THEN [ok |-> TRUE, key |-> key, dataset |-> c[key]]
     ELSE IF WellFormed(chosen)
          THEN [ok |-> TRUE, key |-> key, dataset |-> normalizeDataset(chosen)]
          ELSE [ok |-> FALSE]

\* ------------------------------------------------------------- shard index
IndexYears(index) == SortAsc(index.years)

\* indexPath.slice(0, indexPath.lastIndexOf("/") + 1), "" without a "/"
indexDirOf(indexPath) == SubSeq(indexPath, 1, Len(indexPath) - 1)

\* defaultYear of applyIndexDataset
IndexDefaultYear(index) ==
  IF /\ Has(index, "defaultYear")
     /\ index.defaultYear # 0
     /\ Includes(IndexYears(index), index.defaultYear)
  THEN index.defaultYear
  ELSE FirstYear(IndexYears(index))

IsYearGrouped(index) ==
  Has(index, "year_groups") /\ DOMAIN index.year_groups # {}

NoGroup == "none"     \* groupId: undefined

GroupsOf(index, year) ==
  IF year \in DOMAIN index.year_groups THEN index.year_groups[year] ELSE <<>>

\* loadGroupYear up to its fetch: [hit, key, found, file, path]
loadGroupYear(index, indexDir, c, year, groupId) ==
  LET groups == GroupsOf(index, year)
      pickGroup == IF groupId # NoGroup /\ \E g \in Range(groups) : g.id = groupId
                   THEN groupId
                   ELSE IF groups # <<>> THEN groups[1].id ELSE NoGroup
      cacheKey == <<year, IF pickGroup = NoGroup THEN "all" ELSE pickGroup>>
      gi == FirstIndex(groups, {g \in Range(groups) : g.id = pickGroup})
      group == IF gi # 0 THEN groups[gi] ELSE groups[1]
  IN [hit |-> cacheKey \in DOMAIN c, key |-> cacheKey, found |-> groups # <<>>,
      file |-> IF groups # <<>> THEN group.file ELSE <<>>,
      path |-> IF groups # <<>> THEN indexDir \o group.file ELSE <<>>]

\* loadYear up to its fetch: [hit, key, found, file, path]
loadYear(index, indexDir, c, year) ==
  LET found == Has(index, "files") /\ year \in DOMAIN index.files
  IN [hit |-> <<year, "year">> \in DOMAIN c, key |-> <<year, "year">>,
      found |-> found,
      file |-> IF found THEN index.files[year] ELSE <<>>,
      path |-> IF found THEN indexDir \o index.files[year] ELSE <<>>]

\* the group a setYear of a year-grouped source asks for
GroupIdFor(index, chosen, preferredEconomy) ==
  IF preferredEconomy = NoEconomy THEN NoGroup
  ELSE LET groups == GroupsOf(index, chosen)
           mi == FirstIndex(groups,
                   {g \in Range(groups) : preferredEconomy \in g.economies})
       IN IF mi = 0 THEN NoGroup ELSE groups[mi].id

\* ------------------------------------------------------------ React state
\* setState: React drops the update of a component that is unmounted
setState(next) == IF mounted THEN next ELSE state

Closure(kind, s) == [kind |-> kind, seq |-> s]

\* the object handed to setState by applyDataset and applyIndexDataset
LoadedState(flags, dataset, years, selectedYear, closure, source) ==
  [dataset |-> dataset, years |-> years, selectedYear |-> selectedYear,
   setYear |-> closure, maxDistance |-> getMaxDistance(dataset),
   loading |-> FALSE, source |-> source, available |-> flags, error |-> Undefined]

\* an updater that drops the dataset while the year is switched
YearStateDropsDataset(prev, nextDataset, chosen, source) ==
  [prev EXCEPT !.dataset = Null, !.selectedYear = chosen, !.source = source]

\* an updater that leaves the maxDistance of the dataset it replaces
YearStateKeepsMaxDistance(prev, nextDataset, chosen, source) ==
  [prev EXCEPT !.dataset = nextDataset, !.selectedYear = chosen,
               !.loading = FALSE, !.source = source]

\* the updater of the setYear closures
YearState(prev, nextDataset, chosen, source) ==
  [prev EXCEPT !.dataset = nextDataset, !.selectedYear = chosen,
               !.maxDistance = getMaxDistance(nextDataset),
               !.loading = FALSE, !.source = source]

\* the updater run after the probes of a run that loaded a dataset
AvailabilityState(prev, flags) == [prev EXCEPT !.available = flags]

\* getMaxDistance(sample), the same at every call
SampleMaxDistance == getMaxDistance(getSampleDataset)

\* a fallback that hands out the sample but leaves the loading flag set
SampleStateStillLoading(flags) ==
  [dataset |-> getSampleDataset, years |-> <<getSampleDataset.year>>,
   selectedYear |-> getSampleDataset.year, setYear |-> noopSetYear,
   maxDistance |-> SampleMaxDistance, loading |-> TRUE,
   source |-> "sample", available |-> flags, error |-> Undefined]

\* the object set when no candidate loaded
SampleState(flags) ==
  [dataset |-> getSampleDataset, years |-> <<getSampleDataset.year>>,
   selectedYear |-> getSampleDataset.year, setYear |-> noopSetYear,
   maxDistance |-> SampleMaxDistance, loading |-> FALSE,
   source |-> "sample", available |-> flags, error |-> Undefined]

\* --------------------------------------------------------------- requests
\* A request in flight: the run that sent it, what it is for ("index", "full":
\* a candidate; "init": the initial shard of an index; "head": a probe;
\* "year": the shard of a setYear), the path, the attempt / probe / call it
\* belongs to and, for a shard, the file the index named, the year asked
\* for, the year chosen and the cache key.
Req(s, kind, path, id, file, year, chosen, key) ==
  [seq |-> s, kind |-> kind, path |-> path, id |-> id, file |-> file,
   year |-> year, chosen |-> chosen, key |-> key]

CandidateReq(s, pref, k) ==
  Req(s, attempts(pref)[k].mode, attempts(pref)[k].path, k, <<>>, NullYear,
      NullYear, <<>>)

HeadReqs(s) ==
  {Req(s, "head", probePaths[i].path, i, <<>>, NullYear, NullYear, <<>>) :
     i \in DOMAIN probePaths}

Responses(bodies) == Failures \cup {Json(b) : b \in bodies}

DataKinds == {"index", "full", "init"}

\* --------------------------------------------------------------- the effect
\* The cleanup of a run only sets its flag.  What the run does afterwards is
\* followed up to the calls of setState it can still make: the continuation
\* of a pending initial shard (applyIndexDataset calls setState without
\* reading the flag) and of a pending setYear shard.  Every other setState
\* left on its path is behind `!cancelled`, so the run is retired: its
\* candidate and probe requests are dropped from `net` and its locals are
\* cleared.  The flags a retired run would still write into its own
\* availability object are not followed; state.available keeps the flags
\* the object had at the cleanup.
Retires(s) == s = cur /\ pc[s] # "init"

Cleanup ==
  /\ cancelled' = [s \in Seqs |-> IF s = cur THEN TRUE ELSE cancelled[s]]
  /\ loaded' = [s \in Seqs |-> IF s = cur THEN FALSE ELSE loaded[s]]
  /\ tried' = [s \in Seqs |-> IF s = cur THEN <<>> ELSE tried[s]]
  /\ cache' = [s \in Seqs |-> IF s = cur THEN <<>> ELSE cache[s]]
  /\ env' = [s \in Seqs |-> IF s = cur /\ pc[s] # "init" THEN NoEnv ELSE env[s]]
  /\ avail' = [s \in Seqs |-> IF Retires(s) THEN NoFlags ELSE avail[s]]
  /\ alias' = IF alias # 0 /\ Retires(alias) THEN 0 ELSE alias

Kept(requests) ==
  {r \in requests : ~(Retires(r.seq) /\ r.kind \in DataKinds \cup {"head"})}

\* the effect runs: on mount, and again when `preferred` changes (the view
\* switches it to "apec" or to "world"), after the cleanup of the previous
\* run; loadDataset runs up to its first await
RunEffect(p) ==
  /\ mounted
  /\ cur < MaxSeq
  /\ IF cur = 0 THEN p = preferred ELSE p # preferred /\ p # "auto"
  /\ preferred' = p
  /\ cur' = cur + 1
  /\ Cleanup
  /\ prefs' = [s \in Seqs |-> IF s = cur + 1 THEN p
                              ELSE IF s = cur THEN "auto" ELSE prefs[s]]
  /\ att' = [s \in Seqs |-> IF s = cur + 1 THEN 1
                            ELSE IF s = cur THEN 0 ELSE att[s]]
  /\ pc' = [s \in Seqs |-> IF s = cur + 1 THEN "await"
                           ELSE IF Retires(s) THEN "done" ELSE pc[s]]
  /\ net' = Kept(net) \cup {CandidateReq(cur + 1, p, 1)}
  /\ last' = Step("effect", cur + 1)
  /\ UNCHANGED <<mounted, state, ncalls, gameVars, calc>>

\* the component is torn down: the cleanup of the latest run.  React drops
\* every later update, so nothing in flight can reach the state any more:
\* every run is retired
Unmount ==
  /\ mounted
  /\ cur > 0
  /\ mounted' = FALSE
  /\ cancelled' = [cancelled EXCEPT ![cur] = TRUE]
  /\ pc' = [s \in Seqs |-> IF pc[s] = "idle" THEN "idle" ELSE "done"]
  /\ att' = [s \in Seqs |-> 0]
  /\ loaded' = [s \in Seqs |-> FALSE]
  /\ tried' = [s \in Seqs |-> <<>>]
  /\ env' = [s \in Seqs |-> NoEnv]
  /\ cache' = [s \in Seqs |-> <<>>]
  /\ avail' = [s \in Seqs |-> NoFlags]
  /\ prefs' = [s \in Seqs |-> "auto"]
  /\ alias' = 0
  /\ net' = {}
  /\ last' = Step("unmount", cur)
  /\ UNCHANGED <<preferred, cur, state, ncalls, gameVars, calc>>

\* --------------------------------------------------------- loadDataset
\* Where loadDataset of run s goes after the attempt it is at: on success
\* `loaded = true; break`, then the probes are sent; on an error the catch
\* clause logs and the loop takes the next attempt, or leaves the loop after
\* the last one.  [pc, att, loaded, net, tried, threw]
\* a loop without the `break`: after a success the next candidate is fetched
AfterAttemptKeepsGoing(s, ok, net0) ==
  IF att[s] < Len(attempts(prefs[s]))
  THEN [pc |-> IF ok THEN "probes" ELSE "await",
        att |-> IF ok THEN att[s] ELSE att[s] + 1, loaded |-> loaded[s] \/ ok,
        net |-> net0 \cup {CandidateReq(s, prefs[s], att[s] + 1)}
                     \cup (IF ok THEN HeadReqs(s) ELSE {}),
        tried |-> Append(tried[s], IF ok THEN "ok" ELSE "fail"), threw |-> FALSE]
  ELSE [pc |-> "probes", att |-> att[s], loaded |-> loaded[s] \/ ok,
        net |-> net0 \cup HeadReqs(s),
        tried |-> Append(tried[s], IF ok THEN "ok" ELSE "fail"), threw |-> FALSE]

\* a loop without the catch clause: the error of a candidate ends loadDataset
AfterAttemptRethrows(s, ok, net0) ==
  IF ok
  THEN [pc |-> "probes", att |-> att[s], loaded |-> TRUE,
        net |-> net0 \cup HeadReqs(s), tried |-> Append(tried[s], "ok"),
        threw |-> FALSE]
  ELSE [pc |-> "done", att |-> att[s], loaded |-> loaded[s], net |-> net0,
        tried |-> Append(tried[s], "fail"), threw |-> TRUE]

AfterAttempt(s, ok, net0) ==
  IF ok
  THEN [pc |-> "probes", att |-> att[s], loaded |-> TRUE,
        net |-> net0 \cup HeadReqs(s), tried |-> Append(tried[s], "ok"),
        threw |-> FALSE]
  ELSE IF att[s] < Len(attempts(prefs[s]))
  THEN [pc |-> "await", att |-> att[s] + 1, loaded |-> loaded[s],
        net |-> net0 \cup {CandidateReq(s, prefs[s], att[s] + 1)},
        tried |-> Append(tried[s], "fail"), threw |-> FALSE]
  ELSE [pc |-> "probes", att |-> att[s], loaded |-> loaded[s],
        net |-> net0 \cup HeadReqs(s), tried |-> Append(tried[s], "fail"),
        threw |-> FALSE]

Continue(s, after) ==
  /\ pc' = [pc EXCEPT ![s] = after.pc]
  /\ att' = [att EXCEPT ![s] = after.att]
  /\ loaded' = [loaded EXCEPT ![s] = after.loaded]
  /\ net' = after.net
  /\ tried' = [tried EXCEPT ![s] = after.tried]

\* the step of loadDataset of run s that ended in `after`
Ended(op, s, after) == [Step(op, s) EXCEPT !.threw = after.threw]

\* a cache that outlives the load sequence: a later sequence starts with the
\* 2020 shard an earlier one stored
NewCacheKeepsEarlier(s) ==
  IF s > 1
  THEN (<<2020, "g1">> :> normalizeDataset(RawDataset("apec", 2020, "g1")))
  ELSE <<>>

\* `const cache = {}` of applyIndexDataset: every call makes its own
NewCache(s) == <<>>

\* applyIndexDataset up to its first await: [ok, env, req]
applyIndexDataset(s, index, indexPath, source) ==
  LET years == IndexYears(index)
      indexDir == indexDirOf(indexPath)
      defaultYear == IndexDefaultYear(index)
      grouped == IsYearGrouped(index)
      plan == IF grouped
              THEN loadGroupYear(index, indexDir, <<>>, defaultYear, NoGroup)
              ELSE loadYear(index, indexDir, <<>>, defaultYear)
  IN [ok |-> years # <<>> /\ plan.found,
      env |-> [kind |-> IF grouped THEN "yg" ELSE "legacy", source |-> source,
               years |-> years, defaultYear |-> defaultYear, doc |-> index,
               indexDir |-> indexDir],
      req |-> Req(s, "init", plan.path, att[s], plan.file, defaultYear,
                  defaultYear, plan.key)]

\* the response to the index of the attempt run s is at arrives
ResolveIndex(s) ==
  /\ pc[s] = "await"
  /\ \E r \in net,
        resp \in Responses(IndexBodies(FamilyOf(attempts(prefs[s])[att[s]].source))) :
       /\ r.seq = s /\ r.kind = "index"
       /\ LET attempt == attempts(prefs[s])[att[s]]
              got == fetchIndex(resp)
              net0 == net \ {r}
              flags == IF got.ok /\ attempt.source = "world"
                       THEN [avail[s] EXCEPT !.world = TRUE] ELSE avail[s]
              started == applyIndexDataset(s, got.idx, attempt.path, attempt.source)
              failed == AfterAttempt(s, FALSE, net0)
          IN /\ avail' = [avail EXCEPT ![s] = flags]
             /\ state' = InPlace(s, flags)
             /\ IF ~got.ok
                THEN /\ Continue(s, failed)
                     /\ last' = Ended("fetchIndex", s, failed)
                     /\ UNCHANGED <<env, cache>>
                ELSE IF cancelled[s]
                THEN /\ Continue(s, AfterAttempt(s, TRUE, net0))
                     /\ last' = Step("fetchIndex", s)
                     /\ UNCHANGED <<env, cache>>
                ELSE IF ~started.ok
                THEN /\ Continue(s, failed)
                     /\ last' = Ended("applyIndexDataset", s, failed)
                     /\ UNCHANGED <<env, cache>>
                ELSE /\ pc' = [pc EXCEPT ![s] = "init"]
                     /\ net' = net0 \cup {started.req}
                     /\ env' = [env EXCEPT ![s] = started.env]
                     /\ cache' = [cache EXCEPT ![s] = NewCache(s)]
                     /\ last' = Step("fetchIndex", s)
                     /\ UNCHANGED <<att, loaded, tried>>
  /\ UNCHANGED <<preferred, mounted, cur, alias, cancelled, prefs, ncalls, gameVars, calc>>

\* the response to the initial shard of an index arrives: the rest of
\* applyIndexDataset (the cache entry, the closure, setState), then
\* `loaded = true; break`.  A run cancelled meanwhile is retired after it.
ResolveInit(s) ==
  /\ pc[s] = "init"
  /\ \E r \in net :
       /\ r.seq = s /\ r.kind = "init"
       /\ \E resp \in Responses(ShardBodies(r.file)) :
            LET got == fetchShard(resp)
                net0 == net \ {r}
                e == env[s]
                after == AfterAttempt(s, got.ok, net0)
                set == got.ok /\ mounted
            IN /\ IF got.ok
                  THEN /\ state' = setState(LoadedState(avail[s], got.dataset, e.years,
                                       e.defaultYear, Closure(e.kind, s), e.source))
                       /\ last' = Wrote("applyIndexDataset", s, NullYear)
                  ELSE /\ last' = Ended("applyIndexDataset", s, after)
                       /\ UNCHANGED state
               /\ IF cancelled[s]
                  THEN /\ pc' = [pc EXCEPT ![s] = "done"]
                       /\ net' = net0
                       /\ avail' = [avail EXCEPT ![s] = NoFlags]
                       /\ env' = [env EXCEPT ![s] = NoEnv]
                       /\ alias' = IF set THEN 0 ELSE alias
                       /\ UNCHANGED <<att, loaded, tried, cache>>
                  ELSE /\ Continue(s, after)
                       /\ cache' = [cache EXCEPT ![s] =
                                      IF got.ok THEN (r.key :> got.dataset) @@ cache[s]
                                      ELSE <<>>]
                       /\ alias' = IF set THEN s ELSE alias
                       /\ UNCHANGED <<env, avail>>
  /\ UNCHANGED <<preferred, mounted, cur, cancelled, prefs, ncalls, gameVars, calc>>

\* applyDataset: [ok, state, env, cache]; ok = FALSE: it raised
applyDataset(s, raw, source, flags) ==
  IF Has(raw, "datasets")
  THEN LET years == MultiYears(raw)
           defaultYear == MultiDefaultYear(raw)
           initial == pickYear(raw, defaultYear, <<>>, defaultYear)
       IN IF DOMAIN raw.datasets = {} \/ ~initial.ok
          THEN [ok |-> FALSE]
          ELSE [ok |-> TRUE,
                state |-> LoadedState(flags, initial.dataset, years, defaultYear,
                                      Closure("multi", s), source),
                env |-> [kind |-> "multi", source |-> source, years |-> years,
                         defaultYear |-> defaultYear, doc |-> raw, indexDir |-> <<>>],
                cache |-> (initial.key :> initial.dataset)]
  ELSE LET dataset == normalizeDataset(raw)
       IN [ok |-> TRUE,
           state |-> LoadedState(flags, dataset, <<dataset.year>>, dataset.year,
                                 noopSetYear, source),
           env |-> env[s], cache |-> cache[s]]

\* the response to the monolithic file of the attempt run s is at arrives
ResolveFull(s) ==
  /\ pc[s] = "await"
  /\ \E r \in net,
        resp \in Responses(FullBodies(FamilyOf(attempts(prefs[s])[att[s]].source))) :
       /\ r.seq = s /\ r.kind = "full"
       /\ LET attempt == attempts(prefs[s])[att[s]]
              got == fetchDataset(resp)
              net0 == net \ {r}
              flags == [apec |-> avail[s].apec \/ (got.ok /\ attempt.source = "user-file"),
                        world |-> avail[s].world \/ (got.ok /\ attempt.source = "world")]
              applied == applyDataset(s, got.raw, attempt.source, flags)
              failed == AfterAttempt(s, FALSE, net0)
          IN IF ~got.ok
             THEN /\ Continue(s, failed)
                  /\ last' = Ended("fetchDataset", s, failed)
                  /\ UNCHANGED <<state, avail, alias, env, cache>>
             ELSE IF cancelled[s]
             THEN /\ Continue(s, AfterAttempt(s, TRUE, net0))
                  /\ last' = Step("fetchDataset", s)
                  /\ avail' = [avail EXCEPT ![s] = flags]
                  /\ state' = InPlace(s, flags)
                  /\ UNCHANGED <<alias, env, cache>>
             ELSE IF ~applied.ok
             THEN /\ Continue(s, failed)
                  /\ last' = Ended("applyDataset", s, failed)
                  /\ avail' = [avail EXCEPT ![s] = flags]
                  /\ state' = InPlace(s, flags)
                  /\ UNCHANGED <<alias, env, cache>>
             ELSE /\ state' = setState(applied.state)
                  /\ alias' = IF mounted THEN s ELSE alias
                  /\ avail' = [avail EXCEPT ![s] = flags]
                  /\ env' = [env EXCEPT ![s] = applied.env]
                  /\ cache' = [cache EXCEPT ![s] = applied.cache]
                  /\ last' = Wrote("applyDataset", s, NullYear)
                  /\ Continue(s, AfterAttempt(s, TRUE, net0))
  /\ UNCHANGED <<preferred, mounted, cur, cancelled, prefs, ncalls, gameVars, calc>>

\* a loadDataset whose last update resets the state to the sample
AfterProbesResets(s, flags) ==
  IF ~cancelled[s]
  THEN [write |-> TRUE, state |-> SampleState(flags)]
  ELSE [write |-> FALSE, state |-> InPlace(s, flags)]

\* a loadDataset without the fallback to the built-in sample
AfterProbesNoFallback(s, flags) ==
  IF loaded[s] /\ ~cancelled[s]
  THEN [write |-> TRUE, state |-> AvailabilityState(state, flags)]
  ELSE [write |-> FALSE, state |-> InPlace(s, flags)]

\* what loadDataset does after Promise.all of the probes: [write, state]
AfterProbes(s, flags) ==
  IF loaded[s] /\ ~cancelled[s]
  THEN [write |-> TRUE, state |-> AvailabilityState(state, flags)]
  ELSE IF ~cancelled[s]
  THEN [write |-> TRUE, state |-> SampleState(flags)]
  ELSE [write |-> FALSE, state |-> InPlace(s, flags)]

\* one HEAD probe of run s settles; after the last one loadDataset finishes
ResolveProbe(s) ==
  /\ pc[s] = "probes"
  /\ \E r \in net, ok \in BOOLEAN :
       /\ r.seq = s /\ r.kind = "head"
       /\ LET p == probePaths[r.id]
              flags == [apec |-> avail[s].apec \/ (ok /\ p.source = "user-file"),
                        world |-> avail[s].world \/ (ok /\ p.source = "world")]
              net0 == net \ {r}
              isLast == ~\E q \in net0 : q.seq = s /\ q.kind = "head"
              end == AfterProbes(s, flags)
          IN /\ avail' = [avail EXCEPT ![s] = flags]
             /\ net' = net0
             /\ IF ~isLast
                THEN /\ state' = InPlace(s, flags)
                     /\ last' = Step("probe", s)
                     /\ UNCHANGED <<pc, alias>>
                ELSE /\ pc' = [pc EXCEPT ![s] = "done"]
                     /\ state' = IF end.write THEN setState(end.state) ELSE end.state
                     /\ alias' = IF end.write /\ mounted THEN s ELSE alias
                     /\ last' = IF end.write THEN Wrote("loadDataset", s, NullYear)
                                ELSE Step("loadDataset", s)
  /\ UNCHANGED <<preferred, mounted, cur, cancelled, prefs, att, loaded, env, cache,
                 ncalls, tried, gameVars, calc>>

\* ------------------------------------------------------------------ setYear
YearArgs == {2020, 2021, 2022}
EconomyArgs == {NoEconomy, "JPN"}

\* a setYear that always goes back to the default year
ChosenYearIgnoresRequest(e, year) == e.defaultYear

\* `years.includes(year) ? year : defaultYear`
ChosenYear(e, year) == IF Includes(e.years, year) THEN year ELSE e.defaultYear

\* setYear of a monolithic container: synchronous, no try/catch
SetYearMulti(s, year) ==
  LET e == env[s]
      chosenYear == ChosenYear(e, year)
      picked == pickYear(e.doc, e.defaultYear, cache[s], chosenYear)
  IN /\ ncalls' = ncalls + 1
     /\ IF ~picked.ok
        THEN /\ last' = [Step("setYear", s) EXCEPT !.threw = TRUE]
             /\ UNCHANGED <<state, cache, net>>
        ELSE /\ cache' = [cache EXCEPT ![s] = (picked.key :> picked.dataset) @@ cache[s]]
             /\ state' = setState(YearState(state, picked.dataset, chosenYear, e.source))
             /\ last' = Wrote("setYearDone", s, year)
             /\ UNCHANGED net

\* setYear of an index source up to its await: a cache hit resumes at once,
\* a miss sends the request of the shard, an unresolvable year is caught
SetYearIndex(s, year, preferredEconomy) ==
  LET e == env[s]
      chosen == ChosenYear(e, year)
      plan == IF e.kind = "yg"
              THEN loadGroupYear(e.doc, e.indexDir, cache[s], chosen,
                                 GroupIdFor(e.doc, chosen, preferredEconomy))
              ELSE loadYear(e.doc, e.indexDir, cache[s], chosen)
      \* the setYear of a legacy index takes the year only
      econ == IF e.kind = "yg" THEN preferredEconomy ELSE NoEconomy
  IN /\ ncalls' = ncalls + 1
     /\ UNCHANGED cache
     /\ IF plan.hit
        THEN /\ state' = setState(YearState(state, cache[s][plan.key], chosen, e.source))
             /\ last' = [Wrote("setYearDone", s, year) EXCEPT !.econ = econ]
             /\ UNCHANGED net
        ELSE IF ~plan.found
        THEN /\ last' = Step("setYearFailed", s)
             /\ UNCHANGED <<state, net>>
        ELSE /\ net' = net \cup {Req(s, "year", plan.path, ncalls + 1, plan.file,
                                     year, chosen, plan.key)}
             /\ last' = [Step("setYear", s) EXCEPT !.year = year, !.econ = econ]
             /\ UNCHANGED state

\* the view calls the setYear of the state it rendered; the calls that get
\* past `if (cancelled) return` are counted
SetYearCall(year, preferredEconomy) ==
  /\ mounted
  /\ LET f == state.setYear
     IN IF f.kind = "noop"
        THEN /\ last' = Step("setYear", 0)
             /\ UNCHANGED <<state, cache, net, ncalls>>
        ELSE IF cancelled[f.seq]
        THEN /\ last' = Step("setYear", f.seq)
             /\ UNCHANGED <<state, cache, net, ncalls>>
        ELSE IF f.kind = "multi"
        THEN SetYearMulti(f.seq, year)
        ELSE SetYearIndex(f.seq, year, preferredEconomy)
  /\ UNCHANGED <<preferred, mounted, cur, avail, alias, cancelled, pc, prefs, att,
                 loaded, env, tried, gameVars, calc>>

CallSetYear(year, preferredEconomy) ==
  /\ ncalls < MaxCalls
  /\ SetYearCall(year, preferredEconomy)

\* the shard a setYear awaits arrives: the rest of loadGroupYear / loadYear
\* (the store into the cache of a cancelled run, which nothing reads again,
\* is left out), then the rest of setYear
ResolveYear ==
  /\ \E r \in net :
       /\ r.kind = "year"
       /\ \E resp \in Responses(ShardBodies(r.file)) :
            LET s == r.seq
                got == fetchShard(resp)
            IN /\ net' = net \ {r}
               /\ IF ~got.ok
                  THEN /\ last' = Step("setYearFailed", s)
                       /\ UNCHANGED <<state, cache>>
                  ELSE IF cancelled[s]
                  THEN /\ last' = Step("setYear", s)
                       /\ UNCHANGED <<state, cache>>
                  ELSE /\ cache' = [cache EXCEPT ![s] = (r.key :> got.dataset) @@ cache[s]]
                       /\ state' = setState(YearState(state, got.dataset, r.chosen,
                                                      env[s].source))
                       /\ last' = Wrote("setYearDone", s, r.year)
  /\ UNCHANGED <<preferred, mounted, cur, avail, alias, cancelled, pc, prefs, att,
                 loaded, env, ncalls, tried, gameVars, calc>>

\* ------------------------------------------------------------ specification
Next ==
  \/ \E p \in Preferences : RunEffect(p)
  \/ Unmount
  \/ \E s \in Seqs : ResolveIndex(s)
  \/ \E s \in Seqs : ResolveInit(s)
  \/ \E s \in Seqs : ResolveFull(s)
  \/ \E s \in Seqs : ResolveProbe(s)
  \/ \E y \in YearArgs, econ \in EconomyArgs : CallSetYear(y, econ)
  \/ ResolveYear

Spec == Init /\ [][Next]_vars

\* One load sequence, every request in flight eventually answered: the view
\* mounts, may be torn down, and neither changes the preference nor calls
\* setYear.
LoadNext ==
  \/ \E p \in Preferences : cur = 0 /\ RunEffect(p)
  \/ Unmount
  \/ \E s \in Seqs : ResolveIndex(s)
  \/ \E s \in Seqs : ResolveInit(s)
  \/ \E s \in Seqs : ResolveFull(s)
  \/ \E s \in Seqs : ResolveProbe(s)

\* while a request is in flight some request is answered; a behaviour sends
\* finitely many, so each of them is answered
Answered ==
  WF_vars(\E s \in Seqs : \/ ResolveIndex(s) \/ ResolveInit(s)
                          \/ ResolveFull(s) \/ ResolveProbe(s))

FairSpec == Init /\ [][LoadNext]_vars /\ Answered

\* ------------------------------------------------------ the year switches
\* The setYear calls on one index source: the first candidate of a load
\* sequence with preference "apec" was answered with an index, its initial
\* shard and its probes have been answered; the view then calls setYear up
\* to MaxYearCalls times, in any overlap with the answers, and may be torn
\* down.
YearEconomyArgs == {NoEconomy, "JPN", "KOR"}

YearLoaded(doc, flags) ==
  /\ att = [s \in Seqs |-> IF s = 1 THEN 1 ELSE 0]
  /\ LET started == applyIndexDataset(1, doc, primaryIndexPath, "user-file")
         shard == fetchShard(Json(RawDataset("apec", started.req.year,
                                             started.req.file[3]))).dataset
     IN /\ state = LoadedState(flags, shard, started.env.years,
                               started.env.defaultYear,
                               Closure(started.env.kind, 1), "user-file")
        /\ env = [s \in Seqs |-> IF s = 1 THEN started.env ELSE NoEnv]
        /\ cache = [s \in Seqs |-> IF s = 1 THEN (started.req.key :> shard) ELSE <<>>]
  /\ preferred = "apec"
  /\ mounted = TRUE
  /\ cur = 1
  /\ avail = [s \in Seqs |-> IF s = 1 THEN flags ELSE NoFlags]
  /\ alias = 1
  /\ cancelled = [s \in Seqs |-> FALSE]
  /\ pc = [s \in Seqs |-> IF s = 1 THEN "done" ELSE "idle"]
  /\ prefs = [s \in Seqs |-> IF s = 1 THEN "apec" ELSE "auto"]
  /\ loaded = [s \in Seqs |-> s = 1]
  /\ net = {}
  /\ ncalls = 0
  /\ tried = [s \in Seqs |-> IF s = 1 THEN <<"ok">> ELSE <<>>]
  /\ last = Wrote("loadDataset", 1, NullYear)
  /\ GameInit
  /\ calc = NoCalc

YearInit ==
  \E doc \in {IdxYG("apec"), IdxYGSameId("apec"), IdxLegacy("apec")},
     flags \in {[apec |-> a, world |-> FALSE] : a \in BOOLEAN} :
    YearLoaded(doc, flags)

YearNext ==
  \/ \E y \in YearArgs, econ \in YearEconomyArgs :
       ncalls < MaxYearCalls /\ SetYearCall(y, econ)
  \/ ResolveYear
  \/ Unmount

YearSpec == YearInit /\ [][YearNext]_vars

\* ------------------------------------------------------------- the game
\* The view EnergyGame on top of the hook: the target of the round, the
\* guesses and their persistence.  What useEnergyDataset returns to the view
\* is `state`; here the hook is followed only through the datasets it
\* exposes.
MAX_TRY_COUNT == 6
MaxTileGuesses == 3    \* guesses by tile in one behaviour (World mode)
MaxReloads == 1        \* page loads after the first
MaxDay == 1            \* the days of the page loads are 1..MaxDay

Days == 1..MaxDay

Min2(a, b) == IF a <= b THEN a ELSE b

RECURSIVE SumValues(_)
\* fuels.reduce((acc, fuel) => acc + (Number(fuel.value) || 0), 0)
SumValues(fuels) ==
  IF fuels = <<>> THEN 0 ELSE Head(fuels).value.v + SumValues(Tail(fuels))

totalEnergy(profile) ==
  SumOver(DOMAIN profile.sectors,
          [k \in DOMAIN profile.sectors |-> SumValues(profile.sectors[k])])

sectorTotal(profile, key) == SumValues(SectorList(profile, key))

netImports(profile) ==
  sectorTotal(profile, "02_imports") - Abs(sectorTotal(profile, "03_exports"))

\* fuelMap.set(fuel, (fuelMap.get(fuel) || 0) + delta) on a Map kept as the
\* sequence of its entries in insertion order
MapAdd(fuelMap, fuel, delta) ==
  IF \E i \in DOMAIN fuelMap : fuelMap[i].fuel = fuel
  THEN [i \in DOMAIN fuelMap |->
          IF fuelMap[i].fuel = fuel
          THEN [fuel |-> fuel, value |-> Num(fuelMap[i].value.v + delta)]
          ELSE fuelMap[i]]
  ELSE Append(fuelMap, [fuel |-> fuel, value |-> Num(delta)])

RECURSIVE AddEach(_, _, _)
\* the two forEach loops of netImportsByFuel: imports add their value,
\* exports subtract the absolute value of theirs
AddEach(fuelMap, items, exported) ==
  IF items = <<>> THEN fuelMap
  ELSE LET v == Head(items).value.v
       IN AddEach(MapAdd(fuelMap, Head(items).fuel, IF exported THEN 0 - Abs(v) ELSE v),
                  Tail(items), exported)

netImportsByFuel(profile) ==
  AddEach(AddEach(<<>>, SectorList(profile, "02_imports"), FALSE),
          SectorList(profile, "03_exports"), TRUE)

\* profileForDisplay of the view: the target with the sectors
\* "18_electricity_output_in_gwh" and "net_imports" filled in
profileForDisplay(target) ==
  LET elecGenFuels == SectorList(target, "18_electricity_output_in_gwh")
      netImportFuels == netImportsByFuel(target)
  IN [target EXCEPT !.sectors =
        ("18_electricity_output_in_gwh" :>
            (IF Len(elecGenFuels) > 0 THEN elecGenFuels
             ELSE <<[fuel |-> <<"electricity">>,
                     value |-> Num(sectorTotal(target, "18_electricity_output_in_gwh"))]>>))
        @@ ("net_imports" :>
            (IF Len(netImportFuels) > 0 THEN netImportFuels
             ELSE <<[fuel |-> <<"net_imports">>, value |-> Num(netImports(target))]>>))
        @@ target.sectors]

\* Math.round of the quotient of two naturals, den > 0
RoundDiv(num, den) == (2 * num + den) \div (2 * den)

\* a proximity that does not clamp the distance
proximityFromDistanceUnclamped(distance, maxDistance) ==
  RoundDiv((maxDistance - distance) * 100, maxDistance)

proximityFromDistance(distance, maxDistance) ==
  LET clamped == Max2(Min2(distance, maxDistance), 0)
  IN RoundDiv((maxDistance - clamped) * 100, maxDistance)

\* findProfile: the index of the first profile with the sanitized name, or 0
findProfile(dataset, guessName) ==
  FirstIndex(dataset.profiles,
             {q \in Range(dataset.profiles) :
                sanitizeEconomyName(q.name) = sanitizeEconomyName(guessName)})

\* seedrandom.alea(seed)(): one fixed value in [0, 1) for each seed, here in
\* sixths.  A seed is a day, or a day with the clock reading appended.
DaySeed(day) == [day |-> day]
ClockSeed(day, now) == [day |-> day, now |-> now]
Clock == 0..2
alea(seed) ==
  IF "now" \in DOMAIN seed THEN <<0, 3, 5>>[seed.now + 1]
  ELSE <<1, 4>>[((seed.day - 1) % 2) + 1]

\* a generator that is shared by the calls instead of made from the seed
chooseProfileShared(dataset, seed) ==
  dataset.profiles[((((alea(seed) + calc.calls) % 6) * Len(dataset.profiles)) \div 6) + 1]

chooseProfile(dataset, seed) ==
  dataset.profiles[((alea(seed) * Len(dataset.profiles)) \div 6) + 1]

\* the datasets the hook exposes to the view in this part: normalized
\* single-year datasets; the economies of a family differ from year to year
GameProfile(economy, name, tfc, production) ==
  [economy |-> economy, name |-> name,
   sectors |-> ("12_total_final_consumption" :>
                   <<[fuel |-> <<"t", "f", "c">>, value |-> Num(tfc)]>>)
               @@ ("01_production" :> <<[fuel |-> Coal, value |-> Num(production)]>>)]

Aus(total) == GameProfile("AUS", <<"A", "u", "s">>, total - 40, 40)
Jpn(total) == GameProfile("JPN", <<"J", "p", "n">>, total - 400, 400)
Kor(total) == GameProfile("KOR", <<"K", "o", "r">>, total - 100, 100)
\* a later profile with the sanitized name of "Jpn": findProfile and the
\* target effect stop at the first
JpnHyphen(total) == GameProfile("JPX", <<"J", "-", "p", "n">>, total - 100, 100)

GameDataset(family, year, profiles) ==
  [year |-> year, scenario |-> family,
   sectors |-> <<"12_total_final_consumption", "01_production">>,
   profiles |-> profiles]

Apec2020 == GameDataset("apec", 2020, <<Aus(100), Jpn(900)>>)
\* in 2021 the two profiles have the same total
Apec2021 == GameDataset("apec", 2021, <<Aus(300), Kor(300)>>)
World2020 ==
  GameDataset("world", 2020, <<Aus(100), Jpn(900), JpnHyphen(500), Kor(898)>>)

Exposed(mode) == IF mode = "world" THEN {World2020} ELSE {Apec2020, Apec2021}

\* what the view leaves alone of the hook
hookLocals == <<mounted, cur, avail, alias, cancelled, pc, prefs, att, loaded, env,
                cache, net, tried>>

\* ---- useEnergyGuesses
\* JSON.stringify / JSON.parse of a guess list: the name (and the economy of
\* the target, see handleGuess) is written as a string, every other field,
\* a finite number, as a number
StringFields == {"name", "against"}
JsonOfValue(f, v) == IF f \in StringFields THEN Str(v) ELSE Num(v)
ValueOfJson(j) ==
  IF j.t = "num" THEN j.v ELSE IF j.t = "str" THEN j.s ELSE Null
stringify(list) ==
  [i \in DOMAIN list |-> [f \in DOMAIN list[i] |-> JsonOfValue(f, list[i][f])]]
parse(text) ==
  [i \in DOMAIN text |-> [f \in DOMAIN text[i] |-> ValueOfJson(text[i][f])]]

\* loadAllGuesses()[dayString] ?? []
StoredGuesses(day) == IF day \in DOMAIN storage THEN parse(storage[day]) ELSE <<>>

\* a save that writes the list of the day alone
saveGuessesAlone(newGuesses) == dayString :> stringify(newGuesses)

\* saveGuesses: [storage]
saveGuesses(newGuesses) == (dayString :> stringify(newGuesses)) @@ storage

\* addGuess: [guesses, storage]
addGuess(newGuess) ==
  LET newGuesses == Append(guesses, newGuess)
  IN [guesses |-> newGuesses, storage |-> saveGuesses(newGuesses)]

\* resetGuesses: [guesses, storage]
resetGuesses ==
  [guesses |-> <<>>,
   storage |-> [d \in DOMAIN storage \ {dayString} |-> storage[d]]]

\* ---- the target of the round
\* one run of the target effect on a dataset: keep the economy of the
\* current target, else (World mode) the economy last stored, else the
\* profile of the day
EffectTarget(dataset, target, mode, ref, day) ==
  LET kept == IF target = NoProfile THEN 0
              ELSE FirstIndex(dataset.profiles,
                     {q \in Range(dataset.profiles) :
                        \/ q.economy = target.economy
                        \/ sanitizeEconomyName(q.name) = sanitizeEconomyName(target.name)})
      stored == IF kept = 0 /\ mode = "world" /\ ref # NoEconomy
                THEN FirstIndex(dataset.profiles,
                       {q \in Range(dataset.profiles) : q.economy = ref})
                ELSE 0
  IN IF kept # 0 THEN dataset.profiles[kept]
     ELSE IF stored # 0 THEN dataset.profiles[stored]
     ELSE chooseProfile(dataset, DaySeed(day))

RECURSIVE Settle(_, _, _, _, _)
\* the effect runs again while it changes targetProfile
Settle(dataset, target, mode, ref, day) ==
  LET next == EffectTarget(dataset, target, mode, ref, day)
  IN IF next = target THEN target ELSE Settle(dataset, next, mode, next.economy, day)

\* the renders after an update, up to the one that changes nothing:
\* [target, ref]
Render(dataset, target, mode, ref, day) ==
  IF dataset = Null THEN [target |-> target, ref |-> ref]
  ELSE LET settled == Settle(dataset, target, mode, ref, day)
       IN [target |-> settled, ref |-> settled.economy]

Rendered(dataset, target, mode, ref, day) ==
  /\ targetProfile' = Render(dataset, target, mode, ref, day).target
  /\ lastEconomyRef' = Render(dataset, target, mode, ref, day).ref

\* ---- the handlers of the view
\* the view renders its controls (not "Loading energy balances...")
GameReady ==
  mounted /\ ~state.loading /\ state.dataset # Null /\ targetProfile # NoProfile

\* maxTries; World mode has no limit (0 here)
maxTries == IF preferred = "world" THEN 0 ELSE MAX_TRY_COUNT

gameEnded ==
  \/ maxTries # 0 /\ Len(guesses) >= maxTries
  \/ guesses # <<>> /\ guesses[Len(guesses)].proximity = 100

computeGuessMetrics(profile) ==
  [tfc |-> sectorTotal(profile, "12_total_final_consumption"),
   production |-> sectorTotal(profile, "01_production"),
   elecGen |-> sectorTotal(profile, "18_electricity_output_in_gwh"),
   netImports |-> netImports(profile)]

\* a scoring without the override of an exact name match
newGuessNumeric(dataset, target, guessedProfile) ==
  LET totals == {totalEnergy(q) : q \in Range(dataset.profiles)} \cup {totalEnergy(target)}
      hi == CHOOSE x \in totals : \A y \in totals : x >= y
      lo == CHOOSE x \in totals : \A y \in totals : x <= y
      diff == Abs(totalEnergy(guessedProfile) - totalEnergy(target))
      raw == Min2(proximityFromDistance(diff, Max2(hi - lo, 1)), 99)
      m == computeGuessMetrics(guessedProfile)
  IN [name |-> guessedProfile.name, distance |-> diff, proximity |-> raw,
      total |-> totalEnergy(guessedProfile), totalProximity |-> raw,
      production |-> m.production, tfc |-> m.tfc, elecGen |-> m.elecGen,
      netImports |-> m.netImports, against |-> target.economy]

\* a scoring without the cap of a guess that does not name the target
newGuessUncapped(dataset, target, guessedProfile) ==
  LET totals == {totalEnergy(q) : q \in Range(dataset.profiles)} \cup {totalEnergy(target)}
      hi == CHOOSE x \in totals : \A y \in totals : x >= y
      lo == CHOOSE x \in totals : \A y \in totals : x <= y
      diff == Abs(totalEnergy(guessedProfile) - totalEnergy(target))
      isExactMatch == sanitizeEconomyName(guessedProfile.name)
                        = sanitizeEconomyName(target.name)
      raw == IF isExactMatch THEN 100
             ELSE proximityFromDistance(diff, Max2(hi - lo, 1))
      m == computeGuessMetrics(guessedProfile)
  IN [name |-> guessedProfile.name, distance |-> diff, proximity |-> raw,
      total |-> totalEnergy(guessedProfile), totalProximity |-> raw,
      production |-> m.production, tfc |-> m.tfc, elecGen |-> m.elecGen,
      netImports |-> m.netImports, against |-> target.economy]

\* the EnergyGuess handleGuess builds for a profile of the dataset.  The
\* field `against` is not part of EnergyGuess: it records the economy of the
\* target the guess was scored against and is read by no handler.
newGuess(dataset, target, guessedProfile) ==
  LET targetTotal == totalEnergy(target)
      datasetTotals == {totalEnergy(q) : q \in Range(dataset.profiles)} \cup {targetTotal}
      maxTotal == CHOOSE x \in datasetTotals : \A y \in datasetTotals : x >= y
      minTotal == CHOOSE x \in datasetTotals : \A y \in datasetTotals : x <= y
      totalRange == Max2(maxTotal - minTotal, 1)
      guessedTotal == totalEnergy(guessedProfile)
      totalDiff == Abs(guessedTotal - targetTotal)
      isExactMatch == sanitizeEconomyName(guessedProfile.name)
                        = sanitizeEconomyName(target.name)
      proximityRaw == proximityFromDistance(totalDiff, totalRange)
      proximity == IF isExactMatch THEN 100 ELSE Min2(proximityRaw, 99)
      guessedMetrics == computeGuessMetrics(guessedProfile)
  IN [name |-> guessedProfile.name, distance |-> totalDiff, proximity |-> proximity,
      total |-> guessedTotal, totalProximity |-> proximity,
      production |-> guessedMetrics.production, tfc |-> guessedMetrics.tfc,
      elecGen |-> guessedMetrics.elecGen, netImports |-> guessedMetrics.netImports,
      against |-> target.economy]

\* a handler that records an unknown guess as a miss
handleGuessRecordsUnknown(guessValue) ==
  LET dataset == state.dataset
      hit == findProfile(dataset, guessValue)
      miss == [newGuess(dataset, targetProfile, targetProfile)
                 EXCEPT !.name = guessValue, !.proximity = 0, !.totalProximity = 0]
      added == addGuess(IF hit = 0 THEN miss
                        ELSE newGuess(dataset, targetProfile, dataset.profiles[hit]))
  IN /\ guesses' = added.guesses
     /\ storage' = added.storage
     /\ currentGuess' = <<>>
     /\ last' = Step(IF hit = 0 THEN "guessRejected" ELSE "guessAccepted", 0)

\* handleGuess(guessValue), the controls being rendered
handleGuess(guessValue) ==
  LET dataset == state.dataset
      hit == findProfile(dataset, guessValue)
      added == addGuess(newGuess(dataset, targetProfile, dataset.profiles[hit]))
  IN IF hit = 0
     THEN /\ last' = Step("guessRejected", 0)
          /\ UNCHANGED <<guesses, storage, currentGuess>>
     ELSE /\ guesses' = added.guesses
          /\ storage' = added.storage
          /\ currentGuess' = <<>>
          /\ last' = Step("guessAccepted", 0)

GuessTexts == {<<"a", "u", "s">>, <<" ", "J", "P", "N">>, <<"K", "o", "r">>}

\* the player types into the input (the form is shown in APEC mode until
\* the game has ended)
TypeGuess(text) ==
  /\ GameReady /\ preferred # "world" /\ ~gameEnded
  /\ text # currentGuess
  /\ currentGuess' = text
  /\ last' = Step("type", 0)
  /\ UNCHANGED <<preferred, state, hookLocals, calc, ncalls, dayString, targetProfile,
                 lastEconomyRef, guesses, storage, reloads>>

\* handleSubmit
HandleSubmit ==
  /\ GameReady /\ preferred # "world" /\ ~gameEnded
  /\ handleGuess(currentGuess)
  /\ UNCHANGED <<preferred, state, hookLocals, calc, ncalls, dayString, targetProfile,
                 lastEconomyRef, reloads>>

\* a click on the tile of a profile (World mode; with at most ten profiles
\* every profile of the dataset has a tile)
TileGuess(i) ==
  /\ GameReady /\ preferred = "world"
  /\ Len(guesses) < MaxTileGuesses
  /\ i \in DOMAIN state.dataset.profiles
  /\ handleGuess(state.dataset.profiles[i].name)
  /\ UNCHANGED <<preferred, state, hookLocals, calc, ncalls, dayString, targetProfile,
                 lastEconomyRef, reloads>>

\* "Change country": a new round on a profile drawn with the clock
ChangeCountry(now) ==
  /\ GameReady
  /\ LET next == chooseProfile(state.dataset, ClockSeed(dayString, now))
     IN Rendered(state.dataset, next, preferred, next.economy, dayString)
  /\ guesses' = resetGuesses.guesses
  /\ storage' = resetGuesses.storage
  /\ last' = Step("changeCountry", 0)
  /\ UNCHANGED <<preferred, state, hookLocals, calc, ncalls, dayString, currentGuess,
                 reloads>>

\* the buttons "APEC" and "World", shown when both families are available:
\* the guesses are reset, the target is dropped and chosen again on the
\* dataset on display; the hook starts to load the family
SwitchDataset(mode) ==
  /\ GameReady
  /\ state.available.apec /\ state.available.world
  /\ preferred' = mode
  /\ guesses' = resetGuesses.guesses
  /\ storage' = resetGuesses.storage
  /\ Rendered(state.dataset, NoProfile, mode, lastEconomyRef, dayString)
  /\ last' = Step("switchDataset", 0)
  /\ UNCHANGED <<state, hookLocals, calc, ncalls, dayString, currentGuess, reloads>>

\* what the hook hands to the view when a load or a year switch has
\* finished: a dataset of the family asked for; the target effect follows
ExposedState(dataset) ==
  LoadedState([apec |-> TRUE, world |-> TRUE], dataset, <<2020, 2021>>,
              dataset.year, noopSetYear,
              IF dataset.scenario = "world" THEN "world" ELSE "user-file")

\* the load of the family asked for has finished
LoadExposes(dataset) ==
  /\ mounted
  /\ dataset \in Exposed(preferred)
  /\ IF state.dataset = Null THEN TRUE
     ELSE state.dataset.scenario # dataset.scenario
  /\ state' = ExposedState(dataset)
  /\ Rendered(dataset, targetProfile, preferred, lastEconomyRef, dayString)
  /\ last' = Step("exposed", 0)
  /\ UNCHANGED <<preferred, hookLocals, calc, ncalls, dayString, currentGuess, guesses,
                 storage, reloads>>

\* a year button: setYear has put the dataset of another year on display
YearExposes(dataset) ==
  /\ GameReady
  /\ ncalls < MaxCalls
  /\ dataset \in Exposed(preferred)
  /\ state.dataset.scenario = dataset.scenario /\ state.dataset # dataset
  /\ ncalls' = ncalls + 1
  /\ state' = ExposedState(dataset)
  /\ Rendered(dataset, targetProfile, preferred, lastEconomyRef, dayString)
  /\ last' = Step("yearExposed", 0)
  /\ UNCHANGED <<preferred, hookLocals, calc, dayString, currentGuess, guesses, storage,
                 reloads>>

\* the page is loaded again, on the same day or a later one: localStorage
\* is all that is kept
Reload(day) ==
  /\ reloads < MaxReloads
  /\ day \in Days /\ day >= dayString
  /\ reloads' = reloads + 1
  /\ dayString' = day
  /\ preferred' = "apec"
  /\ state' = InitialState
  /\ targetProfile' = NoProfile
  /\ lastEconomyRef' = NoEconomy
  /\ currentGuess' = <<>>
  /\ guesses' = StoredGuesses(day)
  /\ last' = Step("reload", 0)
  /\ UNCHANGED <<hookLocals, calc, ncalls, storage>>

\* localStorage as an earlier day may have left it: nothing, or the guess
\* list of that day
StorageAtStart ==
  {<<>>, 0 :> stringify(<<newGuess(Apec2020, Jpn(900), Aus(100))>>)}

\* the view is mounted with the APEC family
GameStart ==
  /\ preferred = "apec"
  /\ HookInit
  /\ dayString = 1
  /\ targetProfile = NoProfile
  /\ lastEconomyRef = NoEconomy
  /\ currentGuess = <<>>
  /\ storage \in StorageAtStart
  /\ guesses = StoredGuesses(dayString)
  /\ reloads = 0
  /\ calc = NoCalc

GameNext ==
  \/ \E dataset \in Exposed("apec") \cup Exposed("world") : LoadExposes(dataset)
  \/ \E dataset \in Exposed("apec") \cup Exposed("world") : YearExposes(dataset)
  \/ \E text \in GuessTexts : TypeGuess(text)
  \/ HandleSubmit
  \/ \E i \in DOMAIN World2020.profiles : TileGuess(i)
  \/ \E now \in Clock : ChangeCountry(now)
  \/ \E mode \in {"apec", "world"} : SwitchDataset(mode)
  \/ \E day \in Days : Reload(day)

GameSpec == GameStart /\ [][GameNext]_vars

\* ------------------------------------------------------ the pure helpers
\* A helper of domain/energy (or of the hook) called on its own: the
\* arguments are drawn when the behaviour starts, one step applies the
\* helper.  The hook and the view stay as they are before the first render.
MaxFuels == 2          \* entries of one sector of a profile

FuelNames == {Coal, <<"C", "o", "a", "l">>, Gas}
EnergyValues == {0, 2, 5}

RECURSIVE SeqsUpTo(_, _)
\* the sequences over S of length at most n
SeqsUpTo(S, n) ==
  IF n = 0 THEN {<<>>}
  ELSE LET shorter == SeqsUpTo(S, n - 1)
       IN shorter \cup {Append(s, x) : s \in shorter, x \in S}

FuelLists ==
  SeqsUpTo({[fuel |-> f, value |-> Num(v)] : f \in FuelNames, v \in EnergyValues},
           MaxFuels)

\* normalized profiles with the sector tpes and, some of them, the sector tfc
DistanceProfiles ==
  {[economy |-> "E", name |-> <<"e">>, sectors |-> [tpes |-> l]] : l \in FuelLists}
    \cup {[economy |-> "E", name |-> <<"e">>,
           sectors |-> [tpes |-> l, tfc |-> <<[fuel |-> Gas, value |-> Num(2)]>>]] :
           l \in FuelLists}

PureStart ==
  /\ preferred = "apec"
  /\ HookInit
  /\ GameInit

\* profileDistance(a, b), profileDistance(b, a) and profileDistance(a, a)
DistanceInit ==
  /\ PureStart
  /\ \E a, b \in DistanceProfiles :
       calc = [fn |-> "profileDistance", a |-> a, b |-> b, done |-> FALSE]

ApplyProfileDistance ==
  /\ calc.fn = "profileDistance" /\ ~calc.done
  /\ calc' = [fn |-> "profileDistance", a |-> calc.a, b |-> calc.b, done |-> TRUE,
              out |-> profileDistance(calc.a, calc.b),
              rev |-> profileDistance(calc.b, calc.a),
              self |-> profileDistance(calc.a, calc.a)]
  /\ UNCHANGED programVars

DistanceSpec == DistanceInit /\ [][ApplyProfileDistance]_vars

\* proximityFromDistance(d, m) for m >= 1 and d from below 0 to above m
MaxRange == 12         \* the largest maxDistance

ProximityInit ==
  /\ PureStart
  /\ \E m \in 1..MaxRange, d \in (0 - 2)..(MaxRange + 2) :
       calc = [fn |-> "proximityFromDistance", d |-> d, m |-> m, done |-> FALSE]

ApplyProximityFromDistance ==
  /\ calc.fn = "proximityFromDistance" /\ ~calc.done
  /\ calc' = [fn |-> "proximityFromDistance", d |-> calc.d, m |-> calc.m, done |-> TRUE,
              out |-> proximityFromDistance(calc.d, calc.m)]
  /\ UNCHANGED programVars

ProximitySpec == ProximityInit /\ [][ApplyProximityFromDistance]_vars

\* sanitizeEconomyName(x) and sanitizeEconomyName of the result
MaxLen == 3            \* the longest name

NameChars == {"a", "A", "é", " ", "\t", "-", "'", "("}

SanitizeInit ==
  /\ PureStart
  /\ \E x \in SeqsUpTo(NameChars, MaxLen) :
       calc = [fn |-> "sanitizeEconomyName", x |-> x, done |-> FALSE]

ApplySanitizeEconomyName ==
  /\ calc.fn = "sanitizeEconomyName" /\ ~calc.done
  /\ calc' = [fn |-> "sanitizeEconomyName", x |-> calc.x, done |-> TRUE,
              out |-> sanitizeEconomyName(calc.x),
              twice |-> sanitizeEconomyName(sanitizeEconomyName(calc.x))]
  /\ UNCHANGED programVars

SanitizeSpec == SanitizeInit /\ [][ApplySanitizeEconomyName]_vars

\* chooseProfile(dataset, seed), called MaxChoose times on the same arguments
MaxChoose == 2         \* calls of chooseProfile on one dataset and seed

Seeds == {DaySeed(d) : d \in {1, 2}} \cup {ClockSeed(d, now) : d \in {1, 2}, now \in Clock}

\* non-empty datasets: every ordering of up to three of three profiles, and
\* the World dataset
ChooseDatasets ==
  {GameDataset("apec", 2020, p) :
     p \in SeqsUpTo({Aus(100), Jpn(900), Kor(500)}, 3) \ {<<>>}} \cup {World2020}

ChooseInit ==
  /\ PureStart
  /\ \E dataset \in ChooseDatasets, seed \in Seeds :
       calc = [fn |-> "chooseProfile", dataset |-> dataset, seed |-> seed,
               calls |-> 0, outs |-> <<>>]

ApplyChooseProfile ==
  /\ calc.fn = "chooseProfile" /\ calc.calls < MaxChoose
  /\ calc' = [calc EXCEPT !.calls = @ + 1,
                          !.outs = Append(@, chooseProfile(calc.dataset, calc.seed))]
  /\ UNCHANGED programVars

ChooseSpec == ChooseInit /\ [][ApplyChooseProfile]_vars

\* toNumber(value) for the values JSON.parse can give, and NaN
MaxText == 3           \* the longest string drawn over NumberChars

NumberChars == {"1", "7", ",", " ", "-", "a"}
Texts ==
  SeqsUpTo(NumberChars, MaxText)
    \cup {<<"1", ",", "2", "3", "4">>, <<"a", "b", "c">>, <<" ", "1", "2", "\t">>,
          <<"+", "7">>}

JsonValues ==
  {Num(v) : v \in {0 - 3, 0, 1234}}
    \cup {[t |-> "nan"], [t |-> "null"], [t |-> "obj"]}
    \cup {[t |-> "bool", b |-> b] : b \in BOOLEAN}

ToNumberInit ==
  /\ PureStart
  /\ \/ \E value \in JsonValues : calc = [fn |-> "toNumber", value |-> value, done |-> FALSE]
     \/ \E s \in Texts : calc = [fn |-> "toNumber", value |-> Str(s), done |-> FALSE]
     \/ \E items \in SeqsUpTo({<<"7">>, <<"a">>, <<>>}, 2) :
          calc = [fn |-> "toNumber", value |-> [t |-> "arr", items |-> items],
                  done |-> FALSE]

ApplyToNumber ==
  /\ calc.fn = "toNumber" /\ ~calc.done
  /\ calc' = [fn |-> "toNumber", value |-> calc.value, done |-> TRUE,
              out |-> toNumber(calc.value)]
  /\ UNCHANGED programVars

ToNumberSpec == ToNumberInit /\ [][ApplyToNumber]_vars

\* getMaxDistance(dataset) for the datasets of up to MaxProfiles profiles
MaxProfiles == 3       \* profiles of a dataset

TpesProfile(list) == [economy |-> "E", name |-> <<"e">>, sectors |-> [tpes |-> list]]
Entry(fuel, v) == [fuel |-> fuel, value |-> Num(v)]
\* among them two at distance 0 ("coal" 2 and "Coal" 2)
RangeProfiles ==
  {TpesProfile(<<>>), TpesProfile(<<Entry(Coal, 2)>>), TpesProfile(<<Entry(Coal, 5)>>),
   TpesProfile(<<Entry(<<"C", "o", "a", "l">>, 2)>>),
   TpesProfile(<<Entry(Coal, 2), Entry(Gas, 5)>>)}

MaxDistanceInit ==
  /\ PureStart
  /\ \E profiles \in SeqsUpTo(RangeProfiles, MaxProfiles) :
       calc = [fn |-> "getMaxDistance",
               dataset |-> [year |-> 2020, scenario |-> "apec", sectors |-> <<"tpes">>,
                            profiles |-> profiles],
               done |-> FALSE]

ApplyGetMaxDistance ==
  /\ calc.fn = "getMaxDistance" /\ ~calc.done
  /\ calc' = [fn |-> "getMaxDistance", dataset |-> calc.dataset, done |-> TRUE,
              out |-> getMaxDistance(calc.dataset)]
  /\ UNCHANGED programVars

MaxDistanceSpec == MaxDistanceInit /\ [][ApplyGetMaxDistance]_vars

\* netImports and netImportsByFuel of one profile, and the two figures of
\* the view: the net imports shown for the target and those recorded for a
\* guess of the same profile
TradeValues == {0 - 5, 0, 2}
TradeLists ==
  SeqsUpTo({[fuel |-> f, value |-> Num(v)] : f \in {Coal, Gas}, v \in TradeValues},
           MaxFuels)

NetImportsInit ==
  /\ PureStart
  /\ \E imports, exports \in TradeLists :
       calc = [fn |-> "netImports", done |-> FALSE,
               profile |-> [economy |-> "E", name |-> <<"e">>,
                            sectors |-> ("02_imports" :> imports)
                                        @@ ("03_exports" :> exports)]]

ApplyNetImports ==
  /\ calc.fn = "netImports" /\ ~calc.done
  /\ calc' = [fn |-> "netImports", done |-> TRUE, profile |-> calc.profile,
              total |-> netImports(calc.profile),
              byFuel |-> netImportsByFuel(calc.profile),
              shown |-> sectorTotal(profileForDisplay(calc.profile), "net_imports"),
              recorded |-> computeGuessMetrics(calc.profile).netImports]
  /\ UNCHANGED programVars

NetImportsSpec == NetImportsInit /\ [][ApplyNetImports]_vars

\* ------------------------------------------------------- the tile options
\* The effect of the view that builds the tiles of World mode, run on one
\* set of dependencies (datasetMode, dataset, targetProfile, dayString) over
\* the wrong tiles marked before.
WORLD_TILE_COUNT == 10

\* economy codes in the order of localeCompare
Codes == <<"AUS", "BRA", "CHN", "DEU", "EGY", "FRA", "GBR", "IND", "JPN", "KOR",
           "MEX", "USA">>
CodeRank(economy) == CHOOSE i \in DOMAIN Codes : Codes[i] = economy

\* seedrandom(`${dayString}:${economy}`): the k-th value of the generator
\* of a seed, in sixtieths; one fixed sequence for each seed
seedrandom(day, economy, k) ==
  (day * 17 + CodeRank(economy) * 7 + k * k * 11 + k * 3) % 60

Swap(pool, i, j) ==
  [x \in DOMAIN pool |-> IF x = i THEN pool[j] ELSE IF x = j THEN pool[i] ELSE pool[x]]

RECURSIVE Shuffle(_, _, _, _, _)
\* the loop `for (i = pool.length - 1; i > 0; i -= 1)`: place is i + 1, k
\* counts the calls of rng
Shuffle(pool, place, k, day, economy) ==
  IF place < 2 THEN pool
  ELSE LET j == ((seedrandom(day, economy, k) * place) \div 60) + 1
       IN Shuffle(Swap(pool, place, j), place - 1, k + 1, day, economy)

RECURSIVE InsertByEconomy(_, _)
InsertByEconomy(q, sorted) ==
  IF sorted = <<>> THEN <<q>>
  ELSE IF CodeRank(q.economy) < CodeRank(Head(sorted).economy) THEN <<q>> \o sorted
  ELSE <<Head(sorted)>> \o InsertByEconomy(q, Tail(sorted))

RECURSIVE SortByEconomy(_)
\* .sort((a, b) => a.economy.localeCompare(b.economy)), a stable sort
SortByEconomy(list) ==
  IF list = <<>> THEN <<>>
  ELSE InsertByEconomy(list[Len(list)], SortByEconomy(SubSeq(list, 1, Len(list) - 1)))

\* an effect that takes the whole pool
tileEffectWholePool(mode, dataset, target, day) ==
  IF mode # "world" \/ dataset = Null \/ target = NoProfile
  THEN [tileOptions |-> <<>>, wrongTiles |-> {}]
  ELSE LET pool == SortByEconomy(SelectSeq(dataset.profiles,
                                           LAMBDA q : q.economy # target.economy))
           shuffled == Shuffle(pool, Len(pool), 1, day, target.economy)
       IN [tileOptions |-> SortByEconomy(Append(shuffled, target)),
           wrongTiles |-> {}]

\* the effect: what it hands to setTileOptions and setWrongTiles
tileEffect(mode, dataset, target, day) ==
  IF mode # "world" \/ dataset = Null \/ target = NoProfile
  THEN [tileOptions |-> <<>>, wrongTiles |-> {}]
  ELSE LET pool == SortByEconomy(SelectSeq(dataset.profiles,
                                           LAMBDA q : q.economy # target.economy))
           shuffled == Shuffle(pool, Len(pool), 1, day, target.economy)
           others == SubSeq(shuffled, 1, Min2(Len(shuffled), WORLD_TILE_COUNT - 1))
       IN [tileOptions |-> SortByEconomy(Append(others, target)),
           wrongTiles |-> {}]

\* datasets of 12, 3 and 1 profiles (economy codes unique within a
\* dataset, in no particular order) and the same economies a year later
TileProfile(economy, year) == GameProfile(economy, <<economy>>, year - 2000, 5)
TileDataset(year, order) ==
  GameDataset("world", year, [i \in DOMAIN order |-> TileProfile(Codes[order[i]], year)])
TileDatasets ==
  {TileDataset(y, order) :
     y \in {2020, 2021},
     order \in {<<9, 1, 12, 3, 5, 2, 11, 4, 7, 10, 6, 8>>, <<10, 1, 9>>, <<9>>}}

TilesInit ==
  /\ PureStart
  /\ \E mode \in {"apec", "world"},
        dataset \in TileDatasets \cup {Null},
        economy \in {"AUS", "JPN", "USA"},
        year \in {0, 2020, 2021},
        day \in 1..2,
        wrong \in {{}, {"KOR"}, {"AUS", "KOR"}} :
       calc = [fn |-> "tiles", done |-> FALSE, mode |-> mode, dataset |-> dataset,
               target |-> IF year = 0 THEN NoProfile ELSE TileProfile(economy, year),
               day |-> day, wrongTiles |-> wrong]

\* the effect runs, runs again on the same dependencies, and runs on the
\* profile the same economy has in the other year
ApplyTileEffect ==
  /\ calc.fn = "tiles" /\ ~calc.done
  /\ LET out == tileEffect(calc.mode, calc.dataset, calc.target, calc.day)
         other == IF calc.target = NoProfile THEN NoProfile
                  ELSE TileProfile(calc.target.economy,
                                   IF calc.target = TileProfile(calc.target.economy, 2020)
                                   THEN 2021 ELSE 2020)
     IN calc' = [tileOptions |-> out.tileOptions, wrongTiles |-> out.wrongTiles,
                 before |-> calc.wrongTiles, done |-> TRUE,
                 again |-> tileEffect(calc.mode, calc.dataset, calc.target, calc.day).tileOptions,
                 other |-> tileEffect(calc.mode, calc.dataset, other, calc.day).tileOptions]
                @@ calc
  /\ UNCHANGED programVars

TilesSpec == TilesInit /\ [][ApplyTileEffect]_vars

\* ---------------------------------------------------- the target effect
\* The runs of the target effect after one event: the mount (no target
\* yet), a year switch (the target settled on the dataset of another
\* year) or "Change country" (a profile of the dataset on display).  The
\* effect depends on targetProfile and runs again while it replaces it.
MaxRuns == 6           \* runs of the effect after one event

\* a dataset in which a profile with the sanitized name of "Jpn" precedes it
Apec2021Alias ==
  GameDataset("apec", 2021, <<JpnHyphen(500), Aus(300), Jpn(700)>>)
TargetDatasets == {Apec2020, Apec2021, Apec2021Alias, World2020}

TargetInit ==
  /\ PureStart
  /\ \E dataset \in TargetDatasets,
        event \in {"mount", "yearSwitch", "changeCountry"},
        prev \in TargetDatasets,
        i \in 1..4,
        mode \in {"apec", "world"},
        day \in 1..2 :
       /\ event = "yearSwitch" =>
            /\ prev.scenario = dataset.scenario /\ prev.year # dataset.year
            /\ i \in DOMAIN prev.profiles
       /\ event = "changeCountry" => prev = dataset /\ i \in DOMAIN dataset.profiles
       /\ event = "mount" => prev = dataset /\ i = 1
       /\ LET from == IF event = "mount" THEN NoProfile
                      ELSE IF event = "changeCountry" THEN dataset.profiles[i]
                      ELSE Settle(prev, prev.profiles[i], mode,
                                  prev.profiles[i].economy, day)
          IN calc = [fn |-> "target", dataset |-> dataset, event |-> event,
                     from |-> from, target |-> from,
                     ref |-> IF from = NoProfile THEN NoEconomy ELSE from.economy,
                     mode |-> mode, day |-> day, runs |-> 0, stable |-> FALSE]

\* one run of the effect; a run that sets the target it found set ends them
RunTargetEffect ==
  /\ calc.fn = "target" /\ ~calc.stable /\ calc.runs < MaxRuns
  /\ LET next == EffectTarget(calc.dataset, calc.target, calc.mode, calc.ref, calc.day)
     IN calc' = [calc EXCEPT !.target = next, !.ref = next.economy,
                             !.runs = @ + 1, !.stable = (next = calc.target)]
  /\ UNCHANGED programVars

TargetSpec == TargetInit /\ [][RunTargetEffect]_vars

\* ------------------------------------------------------------------- claims
Fails(n) == [j \in 1..n |-> "fail"]
LoopOps == {"fetchIndex", "fetchDataset", "applyDataset", "applyIndexDataset"}
IndexKinds == {"yg", "legacy"}

\* the order the specification gives: the preferred family's index, its
\* monolithic file, the other family's index, its monolithic file, the sample
ClaimedOrder(pref) ==
  LET first == IF pref = "world" THEN "world" ELSE "apec"
      other == IF pref = "world" THEN "apec" ELSE "world"
      indexOf(f) == IF f = "world" THEN worldIndexPath ELSE primaryIndexPath
      fileOf(f) == IF f = "world" THEN worldPath ELSE primaryPath
  IN <<[family |-> first, mode |-> "index", path |-> indexOf(first)],
       [family |-> first, mode |-> "full", path |-> fileOf(first)],
       [family |-> other, mode |-> "index", path |-> indexOf(other)],
       [family |-> other, mode |-> "full", path |-> fileOf(other)],
       [family |-> "sample", mode |-> "full", path |-> samplePath]>>

\* C1: a data request of a load sequence is the request of candidate k of the
\* fixed order (preferred index, preferred file, other index, other file,
\* sample) and is in flight only when candidates 1..k-1 have all failed; and
\* when a sequence that is not cancelled sets the state from a candidate,
\* that candidate is the first of the order whose load succeeded: source,
\* dataset and the kind of setYear are those of candidate k, where 1..k-1
\* failed, however long the responses took.
C1_OrderedFirstSuccess ==
  /\ \A r \in net :
       r.kind \in {"index", "full"} /\ ~cancelled[r.seq] =>
         LET c == ClaimedOrder(prefs[r.seq])[r.id]
         IN /\ r.kind = c.mode
            /\ r.path = c.path
            /\ tried[r.seq] = Fails(r.id - 1)
  /\ \A s \in Seqs :
       last.seq = s /\ last.op \in LoopOps /\ last.wrote /\ ~cancelled[s] =>
         LET k == Len(tried[s])
             c == ClaimedOrder(prefs[s])[k]
         IN /\ tried[s] = Append(Fails(k - 1), "ok")
            /\ FamilyOf(state.source) = c.family
            /\ state.dataset.scenario = c.family
            /\ (state.setYear.kind \in IndexKinds) <=> (c.mode = "index")

\* C1 witness: with preference "world" the first three candidates failed and
\* the fourth, the monolithic file of the other family, was exposed
C1_Witness ==
  \E s \in Seqs :
    /\ prefs[s] = "world" /\ ~cancelled[s]
    /\ tried[s] = <<"fail", "fail", "fail", "ok">>
    /\ last.seq = s /\ last.wrote /\ last.op = "applyDataset"
    /\ state.source = "user-file" /\ state.dataset.scenario = "apec"

\* C2 (as stated): no setState issued by a load sequence takes effect once
\* its cancelled flag is set, also when the flag is set while the initial
\* shard of an index source is in flight.
C2_NoWriteAfterCancel ==
  ~(last.wrote /\ last.seq \in Seqs /\ cancelled[last.seq])

\* C3: a candidate that fails (the fetch rejects, the status is not OK, the
\* body is not JSON, the index is invalid, the container is empty, the
\* initial shard cannot be resolved or fetched) leaves the state unchanged,
\* raises nothing, and loadDataset goes on with the next candidate of the
\* order, or with the probes after the last one; so a malformed primary
\* index is followed by the request of the primary monolithic file.
C3_FailureCaught ==
  [][\A s \in Seqs :
       (/\ ~cancelled'[s]
        /\ Len(tried'[s]) = Len(tried[s]) + 1
        /\ tried'[s][Len(tried'[s])] = "fail") =>
         LET k == Len(tried'[s])
         IN /\ state' = state
            /\ ~last'.threw /\ ~last'.wrote
            /\ IF k < Len(ClaimedOrder(prefs[s]))
               THEN /\ pc'[s] = "await"
                    /\ \E r \in net' : /\ r.seq = s /\ r.id = k + 1
                                       /\ r.path = ClaimedOrder(prefs[s])[k + 1].path
               ELSE pc'[s] = "probes"]_vars

\* C3 witness: the primary index failed and the primary monolithic file is
\* being fetched, the state still the initial one
C3_Witness ==
  \E s \in Seqs :
    /\ prefs[s] # "world" /\ ~cancelled[s]
    /\ tried[s] = <<"fail">> /\ last.op = "fetchIndex" /\ last.seq = s
    /\ \E r \in net : r.seq = s /\ r.kind = "full" /\ r.path = primaryPath
    /\ state = InitialState

\* C4: when all five candidates of a sequence that is not cancelled have
\* failed, loadDataset ends with the built-in sample as dataset, source
\* "sample", years = [sample.year], selectedYear = sample.year and
\* loading = false, and raises nothing.
C4_SampleFallback ==
  \A s \in Seqs :
    (/\ ~cancelled[s] /\ pc[s] = "done" /\ tried[s] = Fails(5)
     /\ last.seq = s /\ last.op = "loadDataset") =>
      /\ state.dataset = SAMPLE_DATASET
      /\ state.source = "sample"
      /\ state.years = <<SAMPLE_DATASET.year>>
      /\ state.selectedYear = SAMPLE_DATASET.year
      /\ state.loading = FALSE
      /\ ~last.threw

\* C4 witness: a sequence whose five candidates failed has finished
C4_Witness ==
  \E s \in Seqs :
    /\ ~cancelled[s] /\ pc[s] = "done" /\ tried[s] = Fails(5)
    /\ last.seq = s /\ last.op = "loadDataset" /\ last.wrote
    /\ state.dataset = SAMPLE_DATASET


\* C5: when every request that is sent is eventually answered, a load
\* sequence that has started is eventually cancelled or finished with
\* loading = false and a dataset that is not null, whatever the answers are.
C5_EventuallyLoaded ==
  \A s \in Seqs :
    (pc[s] = "await") ~>
      (cancelled[s] \/ (pc[s] = "done" /\ ~state.loading /\ state.dataset # Null))

\* C5 witness: a sequence that was never cancelled has finished, after
\* failures, with a dataset
C5_Witness ==
  \E s \in Seqs :
    /\ ~cancelled[s] /\ pc[s] = "done" /\ Len(tried[s]) >= 2
    /\ ~state.loading /\ state.dataset # Null

\* C6 (as stated): when loadDataset falls back to the built-in sample because
\* every candidate failed, the error field of the state, which the view
\* renders as the advisory "... - using sample data.", is set.
C6_AdvisoryOnSample ==
  \A s \in Seqs :
    (/\ ~cancelled[s] /\ pc[s] = "done" /\ tried[s] = Fails(5)
     /\ last.seq = s /\ last.op = "loadDataset" /\ last.wrote) =>
      state.error # Undefined

\* C7: the settling of a probe of a sequence that loaded a dataset, the
\* update after the last one included, changes nothing of the state but the
\* available flags: dataset, years, selectedYear, setYear, maxDistance and
\* source stay as they are, whichever probes succeed and in whatever order.
C7_ProbesChangeOnlyAvailable ==
  [][\A s \in Seqs :
       (/\ loaded[s] /\ pc[s] = "probes"
        /\ \E r \in net \ net' : r.seq = s /\ r.kind = "head") =>
         state' = [state EXCEPT !.available = state'.available]]_vars

\* C7 witness: the update after the probes marked both families available
\* and the dataset of the winning candidate is still the active one
C7_Witness ==
  \E s \in Seqs :
    /\ loaded[s] /\ pc[s] = "done" /\ ~cancelled[s]
    /\ last.seq = s /\ last.op = "loadDataset" /\ last.wrote
    /\ state.available = [apec |-> TRUE, world |-> TRUE]
    /\ state.source = "world" /\ state.dataset.scenario = "world"
    /\ state.years = <<2020, 2021, 2022>> /\ state.selectedYear = 2021

DataRequests(s) == {r \in net : r.seq = s /\ r.kind \in DataKinds}

\* C8: at most one data request of a load sequence is in flight; the request
\* of candidate k is in flight only when candidates 1..k-1 have failed; and
\* once a candidate has succeeded the sequence has no data request in flight
\* and tries no further candidate.
C8_OneCandidateAtATime ==
  \A s \in Seqs :
    /\ Cardinality(DataRequests(s)) <= 1
    /\ ~cancelled[s] =>
         /\ \A r \in DataRequests(s) : r.id = att[s] /\ tried[s] = Fails(r.id - 1)
         /\ loaded[s] => /\ DataRequests(s) = {}
                         /\ tried[s] = Append(Fails(att[s] - 1), "ok")

\* C8 witness: the second candidate succeeded; the probes are in flight and
\* no request for the third candidate is
C8_Witness ==
  \E s \in Seqs :
    /\ loaded[s] /\ ~cancelled[s] /\ tried[s] = <<"fail", "ok">>
    /\ pc[s] = "probes" /\ att[s] = 2
    /\ \E r \in net : r.seq = s /\ r.kind = "head"
    /\ DataRequests(s) = {}

SetYearOps == {"setYear", "setYearFailed", "setYearDone"}

\* C9 (as stated): setYear never throws to its caller, whatever the shape of
\* the source.
C9_SetYearNeverThrows ==
  ~(last.op \in SetYearOps /\ last.threw)

\* the default year the specification gives for an index: its defaultYear
\* when that is listed in years, else the smallest year
ClaimedIndexDefault(index) ==
  IF "defaultYear" \in DOMAIN index
     /\ \E i \in DOMAIN index.years : index.years[i] = index.defaultYear
  THEN index.defaultYear
  ELSE CHOOSE y \in Range(index.years) : \A z \in Range(index.years) : y <= z

\* C10: a setYear(year) of a multi-year source that completes leaves
\* selectedYear = year when year is one of the years of the source, and the
\* default year of the source otherwise; for an index source the default
\* year is the defaultYear of the index when it is listed in years, else the
\* smallest year.
C10_SelectedYear ==
  (last.op = "setYearDone" /\ last.wrote) =>
    LET e == env[last.seq]
    IN /\ state.selectedYear =
            (IF \E i \in DOMAIN e.years : e.years[i] = last.year
             THEN last.year ELSE e.defaultYear)
       /\ e.kind \in IndexKinds => e.defaultYear = ClaimedIndexDefault(e.doc)

\* C10 witness: setYear(2022) of a legacy index that lists 2020 and 2021 and
\* names 2019 as its default selected 2020
C10_Witness ==
  /\ last.op = "setYearDone" /\ last.wrote /\ last.year = 2022
  /\ env[last.seq].kind = "legacy"
  /\ state.selectedYear = 2020

ShardKinds == {"init", "year"}

\* C11 (as stated): within one dataset-source selection a shard is requested
\* over the network at most once, also when setYear calls overlap: a shard
\* request in flight is for a key that is not in the cache of its sequence,
\* and no other request of the sequence for the same key is in flight.
C11_ShardRequestedOnce ==
  \A r \in net :
    r.kind \in ShardKinds =>
      /\ r.key \notin DOMAIN cache[r.seq]
      /\ \A q \in net :
           (q.kind \in ShardKinds /\ q.seq = r.seq /\ q.key = r.key) => q = r

\* C12: a load sequence begins with an empty shard cache (up to its first
\* stored shard the cache of the sequence is empty, whatever an earlier
\* selection has loaded), every entry of the cache of a sequence is a shard
\* of the source that sequence loaded, and the dataset a sequence serves by
\* setYear is a shard of its own source: after a switch of the preferred
\* family no shard of the previous selection is served by the new sequence.
C12_FreshCache ==
  \A s \in Seqs :
    /\ pc[s] \in {"idle", "await", "init"} => cache[s] = <<>>
    /\ ~cancelled[s] /\ env[s] # NoEnv =>
         /\ \A k \in DOMAIN cache[s] :
              /\ cache[s][k].scenario = FamilyOf(env[s].source)
              /\ cache[s][k].year = k[1]
         /\ (last.op = "setYearDone" /\ last.seq = s /\ last.wrote) =>
              state.dataset.scenario = FamilyOf(env[s].source)

\* C12 witness: after a switch from another preference to "world" the second
\* sequence loaded the world index and a setYear of it was served from its
\* cache, which holds the one shard the sequence itself stored
C12_Witness ==
  /\ cur = 2 /\ cancelled[1] /\ ~cancelled[2] /\ prefs[2] = "world"
  /\ env[2] # NoEnv /\ env[2].kind \in IndexKinds /\ env[2].source = "world"
  /\ last.op = "setYearDone" /\ last.seq = 2 /\ last.wrote
  /\ Cardinality(DOMAIN cache[2]) = 1
  /\ state.dataset.scenario = "world"

\* the group the specification names: the first group of the year whose
\* economies contain the preferred economy, else the first group of the year
ClaimedGroup(index, year, preferredEconomy) ==
  LET groups == index.year_groups[year]
      holds == {i \in DOMAIN groups : preferredEconomy \in groups[i].economies}
  IN IF preferredEconomy # NoEconomy /\ holds # {}
     THEN groups[CHOOSE i \in holds : \A j \in holds : i <= j]
     ELSE groups[1]

\* the last step was a setYear(year, economy) of a year-grouped source that
\* resolved a year with groups
GroupResolved ==
  /\ last.op \in {"setYear", "setYearDone"} /\ last.year # NullYear
  /\ last.seq \in Seqs /\ env[last.seq] # NoEnv /\ env[last.seq].kind = "yg"
  /\ ChosenYear(env[last.seq], last.year) \in DOMAIN env[last.seq].doc.year_groups

\* C13 (as stated): a setYear(year, preferredEconomy) of a year-grouped index
\* asks for the file of the first group of the resolved year whose economies
\* contain preferredEconomy, or of the first group of that year when no
\* economy is given or no group contains it, at the path index directory +
\* file name.
C13_PreferredGroupFile ==
  GroupResolved /\ last.op = "setYear" =>
    LET e == env[last.seq]
        chosen == ChosenYear(e, last.year)
        group == ClaimedGroup(e.doc, chosen, last.econ)
    IN \E r \in net :
         /\ r.kind = "year" /\ r.seq = last.seq /\ r.id = ncalls
         /\ r.chosen = chosen
         /\ r.path = indexDirOf(primaryIndexPath) \o group.file

\* C14: in every reachable state loading = false implies that the dataset
\* is not null, and no step (a setYear that fails or succeeds, a switch of
\* the preference, a reload whose candidates fail, the update after the
\* probes, a teardown) takes a dataset that is not null back to null.
C14_DatasetNeverUndefined ==
  /\ [](~state.loading => state.dataset # Null)
  /\ [][state.dataset # Null => state'.dataset # Null]_vars

\* C14 witness: after a switch of the preference the first candidate of the
\* new sequence has failed and the dataset loaded before is still exposed
C14_Witness ==
  /\ cur = 2 /\ ~cancelled[2] /\ Len(tried[2]) >= 1 /\ tried[2][1] = "fail"
  /\ ~state.loading /\ state.dataset # Null /\ state.source # "sample"

\* the last step was the write of a dataset (a candidate that loaded, or the
\* built-in sample after the last candidate) by a sequence with the default
\* (APEC) preference whose APEC index and APEC file had both failed
ApecMissing(s) ==
  /\ ~cancelled[s] /\ prefs[s] # "world"
  /\ Len(tried[s]) >= 3 /\ tried[s][1] = "fail" /\ tried[s][2] = "fail"
  /\ last.seq = s /\ last.wrote
  /\ \/ last.op \in LoopOps
     \/ last.op = "loadDataset" /\ tried[s][Len(tried[s])] = "fail"

LastGuess == guesses[Len(guesses)]
LiveTotals == {totalEnergy(q) : q \in Range(state.dataset.profiles)}
LiveRange ==
  LET r == CHOOSE d \in {a - b : a, b \in LiveTotals} :
             \A a, b \in LiveTotals : d >= a - b
  IN IF r >= 1 THEN r ELSE 1
NameMatches(g) ==
  sanitizeEconomyName(g.name) = sanitizeEconomyName(targetProfile.name)
\* p is the rounding of 100 * (1 - d / r), d cut at r, and at most 99
IsNormalized(p, d, r) ==
  LET c == IF d > r THEN r ELSE d
      exact == 100 * (r - c)          \* p * r before rounding
  IN \/ p < 99  /\ 2 * p * r - r <= 2 * exact /\ 2 * exact < 2 * p * r + r
     \/ p = 99 /\ 2 * exact >= 2 * 99 * r - r

\* C16: an accepted guess with the sanitized name of the target has
\* proximity 100 whatever its total; any other accepted guess has distance
\* |total of the guess - total of the target| and the proximity that
\* distance gives over max(maxTotal - minTotal, 1) of the dataset on
\* display.  AUS (100) against JPN (900): distance 800, proximity 0; JPN
\* against itself: proximity 100.
C16_GuessScore ==
  last.op = "guessAccepted" =>
    /\ LastGuess.distance = Abs(LastGuess.total - totalEnergy(targetProfile))
    /\ \E q \in Range(state.dataset.profiles) :
         q.name = LastGuess.name /\ LastGuess.total = totalEnergy(q)
    /\ IF NameMatches(LastGuess) THEN LastGuess.proximity = 100
       ELSE IsNormalized(LastGuess.proximity, LastGuess.distance, LiveRange)
    /\ (state.dataset = Apec2020 /\ targetProfile.economy = "JPN") =>
         IF LastGuess.name = Aus(100).name
         THEN LastGuess.distance = 800 /\ LastGuess.proximity = 0
         ELSE LastGuess.proximity = 100

\* AUS has been guessed against JPN in the dataset of the two
C16_Witness ==
  /\ last.op = "guessAccepted"
  /\ state.dataset = Apec2020
  /\ targetProfile.economy = "JPN"
  /\ LastGuess.name = Aus(100).name
  /\ LastGuess.distance = 800
  /\ LastGuess.proximity = 0

\* ---- C17
\* the text in the input has the sanitized name of no profile on display
UnknownText ==
  \A q \in Range(state.dataset.profiles) :
    sanitizeEconomyName(q.name) # sanitizeEconomyName(currentGuess)
Submitted == last'.op \in {"guessAccepted", "guessRejected"}

\* C17: a submitted text that matches no profile of the dataset on display
\* is rejected, and a rejected guess leaves the guess list, its length (the
\* attempts used) and what is stored for the day as they were.
C17_UnknownGuessRejected ==
  [][/\ (Submitted /\ preferred # "world" /\ UnknownText)
        => last'.op = "guessRejected"
     /\ last'.op = "guessRejected"
        => /\ preferred # "world" /\ UnknownText
           /\ guesses' = guesses
           /\ Len(guesses') = Len(guesses)
           /\ StoredGuesses(dayString)' = StoredGuesses(dayString)
           /\ storage' = storage]_vars

\* "Kor" has been rejected on the 2020 dataset, one guess being recorded
C17_Witness ==
  /\ last.op = "guessRejected"
  /\ state.dataset = Apec2020
  /\ currentGuess = <<"K", "o", "r">>
  /\ Len(guesses) = 1
  /\ StoredGuesses(dayString) = guesses

\* ---- C18
\* C18: while the controls are shown, every guess of the list was scored
\* against the economy of the current target: a change of the target to
\* another economy (dataset switch, year switch, "Change country", reload)
\* leaves no guess of an earlier target in the list.
C18_GuessesOfCurrentTarget ==
  GameReady => \A i \in DOMAIN guesses : guesses[i].against = targetProfile.economy

\* ---- C19
OtherDays == (DOMAIN storage \cup DOMAIN storage') \ {dayString}

\* C19: the list stored under the key of the day is the guess list in
\* memory (no key: the empty list); an accepted guess appends exactly one
\* record at the end; no step adds, removes or changes the list stored
\* under the key of another day.
C19_PerDayPersistence ==
  /\ [](StoredGuesses(dayString) = guesses)
  /\ [][/\ last'.op = "guessAccepted"
           => /\ Len(guesses') = Len(guesses) + 1
              /\ SubSeq(guesses', 1, Len(guesses)) = guesses
        /\ \A d \in OtherDays :
             /\ d \in DOMAIN storage /\ d \in DOMAIN storage'
             /\ storage'[d] = storage[d]]_vars

\* a second guess has been stored while another day has its list
C19_Witness ==
  /\ last.op = "guessAccepted"
  /\ Len(guesses) = 2
  /\ dayString \in DOMAIN storage
  /\ parse(storage[dayString]) = guesses
  /\ \E d \in DOMAIN storage : d # dayString /\ storage[d] # <<>>

\* ---- C20
\* C20: in APEC mode, once five guesses are recorded no further guess is
\* accepted.
C20_FiveGuesses ==
  [][(preferred # "world" /\ Len(guesses) >= 5) => last'.op # "guessAccepted"]_vars

\* ---- C21
\* C21: profileDistance(a, b) = profileDistance(b, a) and
\* profileDistance(a, a) = 0, for all profiles a and b over bounded integer
\* values.
C21_DistanceSymmetric ==
  (calc.fn = "profileDistance" /\ calc.done) =>
    /\ calc.out = calc.rev
    /\ calc.self = 0
    /\ calc.a = calc.b => calc.out = 0

\* two profiles that differ in their sectors and fuels, at distance 9
C21_Witness ==
  /\ calc.fn = "profileDistance" /\ calc.done
  /\ DOMAIN calc.a.sectors # DOMAIN calc.b.sectors
  /\ Len(calc.a.sectors.tpes) = 2 /\ Len(calc.b.sectors.tpes) = 1
  /\ calc.out = 9 /\ calc.rev = 9

\* ---- C22
\* C22: for maxDistance m >= 1 and every distance d, below 0 and above m
\* included, proximityFromDistance(d, m) is an integer of 0..100; it is 100
\* for d = 0 (and below) and 0 for d = m (and above).
C22_ProximityRange ==
  (calc.fn = "proximityFromDistance" /\ calc.done) =>
    /\ calc.out \in 0..100
    /\ calc.d <= 0 => calc.out = 100
    /\ calc.d >= calc.m => calc.out = 0

\* a distance above maxDistance has been clamped
C22_Witness ==
  /\ calc.fn = "proximityFromDistance" /\ calc.done
  /\ calc.d > calc.m /\ calc.m > 1
  /\ calc.out = 0

\* ---- C23
\* C23: sanitizeEconomyName is idempotent on every string over letters,
\* spaces, tabs, hyphens, apostrophes and parentheses:
\* sanitize(sanitize(x)) = sanitize(x).
C23_SanitizeIdempotent ==
  (calc.fn = "sanitizeEconomyName" /\ calc.done) => calc.twice = calc.out

Numeric(dataset) ==
  \A i \in DOMAIN dataset.profiles :
    \A k \in DOMAIN dataset.profiles[i].sectors :
      \A j \in DOMAIN dataset.profiles[i].sectors[k] :
        LET value == dataset.profiles[i].sectors[k][j].value
        IN value.t = "num" /\ value.v \in Int

\* C25: in every reachable state each value of state.dataset and of every
\* dataset in a cache is a finite number, whatever the payload held
\* (numbers, comma-formatted strings, malformed strings): a shard is
\* normalized before it enters the cache.
C25_NumericDatasets ==
  /\ state.dataset # Null => Numeric(state.dataset)
  /\ \A s \in Seqs : \A k \in DOMAIN cache[s] : Numeric(cache[s][k])

\* a cached shard is on display whose payload held "1,200" and "n/a"
C25_Witness ==
  /\ state.dataset # Null
  /\ \E s \in Seqs : \E k \in DOMAIN cache[s] : cache[s][k] = state.dataset
  /\ state.dataset.profiles[1].sectors.tpes[2].value = Num(1200)
  /\ state.dataset.profiles[2].sectors.tpes[2].value = Num(0)

\* ---- C26
\* what the conversion of some texts must give
ExpectedNumbers ==
  <<[s |-> <<"1", ",", "2", "3", "4">>, v |-> 1234], [s |-> <<"a", "b", "c">>, v |-> 0],
    [s |-> <<" ", "1", "2", "\t">>, v |-> 12], [s |-> <<"-", "1", "7">>, v |-> 0 - 17],
    [s |-> <<"1", ",", ",">>, v |-> 1], [s |-> <<"1", " ", "7">>, v |-> 0],
    [s |-> <<",", "7", ",">>, v |-> 7], [s |-> <<"1", "-", "7">>, v |-> 0],
    [s |-> <<>>, v |-> 0], [s |-> <<" ">>, v |-> 0], [s |-> <<"-">>, v |-> 0],
    [s |-> <<"1", "a">>, v |-> 0], [s |-> <<"+", "7">>, v |-> 7]>>

\* C26: toNumber returns a finite number for every value: a finite number
\* as it is; a string without its commas and the whitespace around it,
\* parsed, or 0 when that is no finite number; any other value coerced, or
\* 0.  toNumber("1,234") = 1234, toNumber("abc") = 0, toNumber(NaN) = 0.
C26_ToNumberFinite ==
  (calc.fn = "toNumber" /\ calc.done) =>
    /\ calc.out \in Int
    /\ calc.value.t = "num" => calc.out = calc.value.v
    /\ calc.value.t = "str" =>
         /\ \A i \in DOMAIN ExpectedNumbers :
              calc.value.s = ExpectedNumbers[i].s => calc.out = ExpectedNumbers[i].v
         /\ (\E i \in DOMAIN calc.value.s : calc.value.s[i] = "a") => calc.out = 0
    /\ calc.value.t \in {"nan", "obj", "null"} => calc.out = 0
    /\ calc.value.t = "bool" => calc.out = IF calc.value.b THEN 1 ELSE 0
    /\ calc.value.t = "arr" =>
         calc.out = IF calc.value.items = <<<<"7">>>> THEN 7 ELSE 0

\* "1,234" has been converted to 1234
C26_Witness ==
  /\ calc.fn = "toNumber" /\ calc.done
  /\ calc.value = Str(<<"1", ",", "2", "3", "4">>)
  /\ calc.out = 1234

\* ---- C27
\* the entries of sector k of profile p
Entries(p, k) == IF k \in DOMAIN p.sectors THEN p.sectors[k] ELSE <<>>
\* the sector/fuel combinations that appear in either argument
Combinations ==
  UNION {{<<k, Entries(p, k)[i].fuel>> : i \in DOMAIN Entries(p, k)} :
           k \in DOMAIN calc.a.sectors \cup DOMAIN calc.b.sectors,
           p \in {calc.a, calc.b}}
\* the key of a fuel: its name as written, or sanitized
FuelKey(f, sanitized) == IF sanitized THEN sanitizeEconomyName(f) ELSE f
\* the value p holds for the fuel of sector k with the key of f; 0 when p
\* has no such entry
ValueAt(p, k, f, sanitized) ==
  LET hits == {i \in DOMAIN Entries(p, k) :
                 FuelKey(Entries(p, k)[i].fuel, sanitized) = FuelKey(f, sanitized)}
  IN IF hits = {} THEN 0 ELSE Entries(p, k)[CHOOSE i \in hits : TRUE].value.v
OneEntryPerKey(p, sanitized) ==
  \A k \in DOMAIN p.sectors :
    \A i, j \in DOMAIN p.sectors[k] :
      FuelKey(p.sectors[k][i].fuel, sanitized) = FuelKey(p.sectors[k][j].fuel, sanitized)
        => i = j
ZeroIffIdentical(sanitized) ==
  (/\ calc.fn = "profileDistance" /\ calc.done
   /\ OneEntryPerKey(calc.a, sanitized) /\ OneEntryPerKey(calc.b, sanitized))
    => (calc.out = 0 <=>
          \A c \in Combinations :
            ValueAt(calc.a, c[1], c[2], sanitized) = ValueAt(calc.b, c[1], c[2], sanitized))

PairDistance(i, j) ==
  profileDistance(calc.dataset.profiles[i], calc.dataset.profiles[j])
Places == DOMAIN calc.dataset.profiles

\* C28: getMaxDistance(dataset) is the largest profileDistance over the
\* pairs of distinct profiles, and 1 when there are fewer than two profiles
\* or every such distance is 0; so it is at least 1 and at least every
\* pairwise distance.
C28_MaxDistance ==
  (calc.fn = "getMaxDistance" /\ calc.done) =>
    /\ calc.out >= 1
    /\ \A i, j \in Places : calc.out >= PairDistance(i, j)
    /\ IF \E i, j \in Places : i # j /\ PairDistance(i, j) > 0
       THEN \E i, j \in Places : i # j /\ calc.out = PairDistance(i, j)
       ELSE calc.out = 1

\* the largest distance is that of the first and the last of three profiles
C28_Witness ==
  /\ calc.fn = "getMaxDistance" /\ calc.done
  /\ Len(calc.dataset.profiles) = 3
  /\ calc.out = PairDistance(1, 3)
  /\ calc.out > PairDistance(1, 2) /\ calc.out > PairDistance(2, 3)

\* ---- C29
\* C29: when the answer to an earlier setYear call arrives after a later
\* call of the same source has written its selection, and no call is left
\* unanswered, the selectedYear and the dataset on display stay those of
\* the later call.
C29_LaterCallWins ==
  [][\A r \in net :
       (/\ r.kind = "year" /\ r \notin net'
        /\ r.id < ncalls
        /\ last.op = "setYearDone" /\ last.wrote /\ last.seq = r.seq
        /\ \A q \in net' : q.kind # "year")
         => /\ state'.selectedYear = state.selectedYear
            /\ state'.dataset = state.dataset]_vars

\* ---- C30
\* C30: when a load sequence has completed (here the first one, which
\* nothing has cancelled), the family of the source on display is reported
\* available: source "user-file" implies available.apec and source "world"
\* implies available.world, whatever the GET and HEAD requests returned.
C30_ActiveFamilyAvailable ==
  (last.op = "loadDataset" /\ last.wrote /\ last.seq = 1 /\ cur = 1) =>
    /\ state.source = "user-file" => state.available.apec
    /\ state.source = "world" => state.available.world

\* ---- C31
\* C31: whenever a dataset is on display it is the data of selectedYear:
\* its year is selectedYear, and under a monolithic container it is the
\* normalized entry datasets[selectedYear] (as long as the run that loaded
\* the container still holds it).
C31_DatasetOfSelectedYear ==
  state.dataset # Null =>
    /\ state.dataset.year = state.selectedYear
    /\ IF state.setYear.kind = "multi" /\ env[state.setYear.seq].kind = "multi"
       THEN LET doc == env[state.setYear.seq].doc
            IN /\ state.selectedYear \in DOMAIN doc.datasets
               /\ state.dataset = normalizeDataset(doc.datasets[state.selectedYear])
       ELSE TRUE

\* ---- C32
\* C32: whenever a dataset is on display, selectedYear is one of the years
\* the state lists, whatever the shape of the source.
C32_SelectedYearListed ==
  state.dataset # Null => Includes(state.years, state.selectedYear)

\* ---- C33
\* C33: whenever a dataset is on display, state.maxDistance is
\* getMaxDistance of that dataset.
C33_MaxDistanceOfDataset ==
  state.dataset # Null => state.maxDistance = getMaxDistance(state.dataset)

\* a setYear has replaced the dataset by one with another maxDistance than
\* the dataset of the initial load, and the availability update of the run
\* came after it
C33_Witness ==
  /\ last.op = "loadDataset" /\ last.wrote
  /\ state.setYear.kind # "noop"
  /\ state.selectedYear = 2020
  /\ state.dataset # Null
  /\ state.maxDistance = 1207
  /\ env[state.setYear.seq].kind # "none"
  /\ env[state.setYear.seq].defaultYear = 2021

\* ---- C34
\* the profiles on display by economy code (a code has one name in every
\* dataset)
NamesOf(economy) ==
  {q.name : q \in {x \in UNION {Range(d.profiles) : d \in Exposed("apec") \cup Exposed("world")} :
                    x.economy = economy}}

\* C34: a recorded guess has proximity 100 exactly when its sanitized name
\* is the sanitized name of the target it was scored against; any other
\* guess has at most 99, even with the total of the target (distance 0).
\* When handleGuess records a 100, the guess names the current target.
C34_HundredIffNamed ==
  /\ \A i \in DOMAIN guesses :
       LET g == guesses[i]
       IN /\ g.proximity = 100 <=>
               \E n \in NamesOf(g.against) :
                 sanitizeEconomyName(g.name) = sanitizeEconomyName(n)
          /\ g.proximity <= 100
  /\ last.op = "guessAccepted" => (LastGuess.proximity = 100 <=> NameMatches(LastGuess))

\* KOR, with the total of the target AUS, has been recorded at 99
C34_Witness ==
  /\ last.op = "guessAccepted"
  /\ state.dataset = Apec2021
  /\ targetProfile.economy = "AUS"
  /\ LastGuess.name = Kor(300).name
  /\ LastGuess.distance = 0
  /\ LastGuess.proximity = 99

\* ---- C35
\* a step appends one guess to the list
GuessAppended ==
  /\ Len(guesses') = Len(guesses) + 1
  /\ SubSeq(guesses', 1, Len(guesses)) = guesses

\* C35: once the game has ended (the last recorded guess has proximity
\* 100, or 6 guesses are recorded in APEC mode) no step appends a guess to
\* the list, in APEC mode and in World mode.
C35_NoGuessAfterEnd == [][gameEnded => ~GuessAppended]_vars

\* ---- C36
\* C36: for every profile the values of netImportsByFuel(profile) add up
\* to netImports(profile), and the net imports shown for a target are the
\* net imports recorded for a guess of the same profile.
C36_NetImportsAgree ==
  (calc.fn = "netImports" /\ calc.done) =>
    /\ SumValues(calc.byFuel) = calc.total
    /\ calc.shown = calc.recorded

\* ---- C37
EconomiesOf(tiles) == [i \in DOMAIN tiles |-> tiles[i].economy]

\* C37: in World mode with a dataset and a target the tiles contain the
\* target profile, are at most 10, have pairwise distinct economy codes
\* and are the same at every run for the same day, target and dataset (the
\* same economies for the same day, target economy and dataset); every run
\* of the effect leaves the set of wrong tiles empty.
C37_TileOptions ==
  (calc.fn = "tiles" /\ calc.done) =>
    /\ calc.wrongTiles = {}
    /\ (calc.mode = "world" /\ calc.dataset # Null /\ calc.target # NoProfile) =>
         /\ \E i \in DOMAIN calc.tileOptions : calc.tileOptions[i] = calc.target
         /\ Len(calc.tileOptions) <= WORLD_TILE_COUNT
         /\ \A i, j \in DOMAIN calc.tileOptions :
              i # j => calc.tileOptions[i].economy # calc.tileOptions[j].economy
         /\ calc.again = calc.tileOptions
         /\ EconomiesOf(calc.other) = EconomiesOf(calc.tileOptions)

\* ten tiles out of a dataset of twelve profiles, shuffled, with wrong tiles
\* marked before the run
C37_Witness ==
  /\ calc.fn = "tiles" /\ calc.done
  /\ calc.mode = "world" /\ calc.dataset # Null /\ calc.target # NoProfile
  /\ Len(calc.dataset.profiles) = 12
  /\ Len(calc.tileOptions) = WORLD_TILE_COUNT
  /\ calc.before # {}
  /\ \E i \in DOMAIN calc.tileOptions : calc.tileOptions[i].economy = "USA"
  /\ \E q \in Range(calc.dataset.profiles) :
       /\ q.economy \in {"BRA", "CHN"}
       /\ \A i \in DOMAIN calc.tileOptions : calc.tileOptions[i] # q

\* ---- C38
\* the runs have ended on a target that no further run replaces
AtFixedPoint == calc.fn = "target" /\ calc.stable

\* the runs of the effect end after at most one run for each profile and
\* one more, on a profile of the dataset
TargetSettles ==
  calc.fn = "target" =>
    /\ calc.runs <= Len(calc.dataset.profiles) + 1
    /\ calc.runs = Len(calc.dataset.profiles) + 1 => calc.stable
    /\ calc.stable => calc.target \in Range(calc.dataset.profiles)

\* C38: the target effect reaches a fixed point after finitely many runs
\* for every dataset, the target is then a profile of the dataset, and
\* when the dataset put on display by a year switch has a profile with the
\* economy code of the target, the target keeps that economy.
C38_TargetFixedPoint ==
  /\ TargetSettles
  /\ (AtFixedPoint /\ calc.event = "yearSwitch"
        /\ \E q \in Range(calc.dataset.profiles) : q.economy = calc.from.economy)
       => calc.target.economy = calc.from.economy

====
